---- MODULE Spec2Model ----
(***************************************************************************)
(* Model of the weather service core: the cache-aside layer (RequestCache  *)
(* over a KVStore), the provider registry (ProviderManager) and the        *)
(* weather / geocode adapters (NWSProvider, CensusProvider).               *)
(***************************************************************************)
EXTENDS Integers, Sequences, FiniteSets, TLC

\* ------------------------------------------------------------------------
\* Bounds of the model
\* ------------------------------------------------------------------------
MaxTime == 3
MaxTTL == 2
NumCallers == 2
MaxProviders == 3
NumRegistrars == 2
MaxStations == 2
MaxPeriods == 3
MaxDays == 1
MaxAlerts == 2
MaxMatches == 2
MaxStrLen == 4
MaxDirLen == 3
MaxWindLen == 5
MaxKeyLen == 20
MaxRetries == 2
MaxLines == 2

\* ------------------------------------------------------------------------
\* Cache-aside layer: state
\* ------------------------------------------------------------------------
VARIABLES
    data,         \* MockKVStore.data : map[string][]byte
    ttls,         \* MockKVStore.ttls : map[string]time.Time
    shouldError,  \* MockKVStore.shouldError
    errorMsg,     \* MockKVStore.errorMsg
    now,          \* the wall clock read by time.Now()
    lastOp,       \* the last RequestCache call: its arguments, what it returned, the store call it made
    lastSet       \* per store key, the latest successful Set with a TTL that no write or delete followed

cacheVars == <<data, ttls, shouldError, errorMsg, now, lastOp, lastSet>>

\* Concurrent callers of SetNX on one store (one goroutine each)
VARIABLES
    nxpc,         \* where each caller is inside MockKVStore.SetNX
    nxarg,        \* each caller's arguments (value, ttl)
    nxret         \* what each caller's SetNX returned

nxVars == <<nxpc, nxarg, nxret>>

\* Provider registry
VARIABLES
    weatherProviders,  \* ProviderManager.weatherProviders
    geocodeProviders,  \* ProviderManager.geocodeProviders
    pmLast,            \* the last listing or lookup and its result
    regW,              \* the weather providers registered so far, in order of completion
    regG,              \* the geocode providers registered so far, in order of completion
    regpc,             \* where each concurrent registrar is inside Register*Provider
    regarg,            \* each registrar's capability and provider
    reglocal,          \* the slice each registrar read before appending
    raced              \* some registration overlapped another of the same capability

pmVars == <<weatherProviders, geocodeProviders, pmLast, regW, regG, regpc, regarg, reglocal, raced>>

\* One call of an adapter operation (NWSProvider or CensusProvider)
VARIABLES
    opKind,        \* the operation being run
    opDays,        \* GetForecast's days argument
    opAddress,     \* GeocodeAddress's address argument
    pc,            \* the upstream stage the call is at
    inflight,      \* a request has been handed to the HTTP client and has not returned
    ctxCancelled,  \* ctx.Done() is closed
    cancelPoint,   \* how many requests had been attempted when ctx was cancelled with none in flight (-1: never)
    requests,      \* the requests attempted by this call, in order
    stationID,     \* GetCurrentWeather's stationID
    result         \* what the call returned

adapterVars == <<opKind, opDays, opAddress, pc, inflight, ctxCancelled, cancelPoint, requests, stationID, result>>

\* One application of a conversion function of the adapters
VARIABLES
    fnOp,          \* the function applied
    fnIn,          \* its arguments
    fnOut          \* what it returned

fnVars == <<fnOp, fnIn, fnOut>>

\* One call of GenerateSecureKey
VARIABLES
    kpc,           \* where the call is: "idle", "entered" (a call or a recursive call begins), "done"
    kRequested,    \* the length the caller asked for
    kLength,       \* the length argument of the current (possibly recursive) call
    kDepth,        \* how many times the call has recursed
    kResult        \* what the call returned

keyVars == <<kpc, kRequested, kLength, kDepth, kResult>>

\* One call of processEnvFile
VARIABLES
    epc,           \* where the call is: "idle", "scan", "rename", "create", "write", "remove", "done"
    eEncrypt,      \* the encrypt argument
    eOriginal,     \* the lines of the file when the call began
    eFile,         \* what is at filePath
    eBackup,       \* what is at filePath + ".backup"
    eLines,        \* lines, the processed lines collected so far
    eErr           \* the error returned

envVars == <<epc, eEncrypt, eOriginal, eFile, eBackup, eLines, eErr>>

vars == <<cacheVars, nxVars, pmVars, adapterVars, fnVars, keyVars, envVars>>

Prefixes == {"", "w"}
Keys == {"a"}
Values == {"v1", "v2"}
TTLs == 0..MaxTTL
ErrorMsgs == {"mock error", "store down"}
NoMsg == ""

NoErr == "nil"
NilValue == "<nil>"
ErrKeyNotFound == "key not found"

\* Go map primitives: m[k] = v and delete(m, k)
MapSet(m, k, v) == [x \in (DOMAIN m) \cup {k} |-> IF x = k THEN v ELSE m[x]]
MapDelete(m, k) == [x \in (DOMAIN m) \ {k} |-> m[x]]
EmptyMap == [x \in {} |-> NilValue]
ValueOf(d, key) == IF key \in DOMAIN d THEN d[key] ELSE NilValue
ExpiryOf(t, key) == IF key \in DOMAIN t THEN t[key] ELSE -1
Expired(t, key, clk) == key \in DOMAIN t /\ clk > t[key]

\* ------------------------------------------------------------------------
\* MockKVStore: each operation maps the store (d, t) to its new contents
\* and its results
\* ------------------------------------------------------------------------
\* a result holds the returned []byte (value), bool (ok) or Duration (dur),
\* the fields a method does not return staying at their zero value
StoreResult(d, t, value, ok, dur, err) ==
    [data |-> d, ttls |-> t, value |-> value, ok |-> ok, dur |-> dur, err |-> err]
ValueResult(d, t, value, err) == StoreResult(d, t, value, FALSE, 0, err)
BoolResult(d, t, ok, err) == StoreResult(d, t, NilValue, ok, 0, err)
DurationResult(d, t, dur, err) == StoreResult(d, t, NilValue, FALSE, dur, err)
ErrorResult(d, t, err) == StoreResult(d, t, NilValue, FALSE, 0, err)

MockGet(d, t, se, em, key, clk) ==
    IF se THEN ValueResult(d, t, NilValue, em)
    ELSE IF key \in DOMAIN t /\ clk > t[key]
         THEN ValueResult(MapDelete(d, key), MapDelete(t, key), NilValue, ErrKeyNotFound)
    ELSE IF key \notin DOMAIN d
         THEN ValueResult(d, t, NilValue, ErrKeyNotFound)
    ELSE ValueResult(d, t, d[key], NoErr)

\* variant: a key that already has an expiry keeps it
MockSet_KeepsExpiry(d, t, se, em, key, value, ttl, clk) ==
    IF se THEN ErrorResult(d, t, em)
    ELSE ErrorResult(MapSet(d, key, value),
                     IF ttl > 0 /\ key \notin DOMAIN t THEN MapSet(t, key, clk + ttl) ELSE t,
                     NoErr)

MockSet(d, t, se, em, key, value, ttl, clk) ==
    IF se THEN ErrorResult(d, t, em)
    ELSE ErrorResult(MapSet(d, key, value),
                     IF ttl > 0 THEN MapSet(t, key, clk + ttl) ELSE t,
                     NoErr)

\* variant: a delete empties the store
MockDelete_ClearsStore(d, t, se, em, key) ==
    IF se THEN ErrorResult(d, t, em)
    ELSE ErrorResult(EmptyMap, EmptyMap, NoErr)

MockDelete(d, t, se, em, key) ==
    IF se THEN ErrorResult(d, t, em)
    ELSE ErrorResult(MapDelete(d, key), MapDelete(t, key), NoErr)

MockExists(d, t, se, em, key, clk) ==
    IF se THEN BoolResult(d, t, FALSE, em)
    ELSE IF key \in DOMAIN t /\ clk > t[key]
         THEN BoolResult(MapDelete(d, key), MapDelete(t, key), FALSE, NoErr)
    ELSE BoolResult(d, t, key \in DOMAIN d, NoErr)

\* variant: an expired entry still counts as present
MockSetNX_IgnoresExpiry(d, t, se, em, key, value, ttl, clk) ==
    IF se THEN BoolResult(d, t, FALSE, em)
    ELSE IF key \in DOMAIN d
         THEN BoolResult(d, t, FALSE, NoErr)
         ELSE BoolResult(MapSet(d, key, value),
                          IF ttl > 0 THEN MapSet(t, key, clk + ttl) ELSE t,
                          TRUE, NoErr)

MockSetNX(d, t, se, em, key, value, ttl, clk) ==
    IF se THEN BoolResult(d, t, FALSE, em)
    ELSE LET expired == key \in DOMAIN t /\ clk > t[key]
             d1 == IF expired THEN MapDelete(d, key) ELSE d
             t1 == IF expired THEN MapDelete(t, key) ELSE t
         IN IF key \in DOMAIN d1
            THEN BoolResult(d1, t1, FALSE, NoErr)
            ELSE BoolResult(MapSet(d1, key, value),
                             IF ttl > 0 THEN MapSet(t1, key, clk + ttl) ELSE t1,
                             TRUE, NoErr)

MockGetTTL(d, t, se, em, key, clk) ==
    IF se THEN DurationResult(d, t, 0, em)
    ELSE IF key \notin DOMAIN t THEN DurationResult(d, t, -1, NoErr)
    ELSE IF t[key] - clk <= 0
         THEN DurationResult(MapDelete(d, key), MapDelete(t, key), -1, NoErr)
    ELSE DurationResult(d, t, t[key] - clk, NoErr)

MockClear(d, t, se, em) ==
    IF se THEN ErrorResult(d, t, em)
    ELSE ErrorResult(EmptyMap, EmptyMap, NoErr)

MockClose(d, t, se, em) ==
    IF se THEN ErrorResult(d, t, em)
    ELSE ErrorResult(d, t, NoErr)

\* ------------------------------------------------------------------------
\* RequestCache: prefixes the key and forwards to the store.  A call's
\* result carries what the caller receives (ret, err) and, for the record,
\* the store calls it made: the key passed (skey), the error the store
\* returned (serr) and their number (calls).
\* ------------------------------------------------------------------------
\* variant: the separator is added for the empty prefix too
prefixKey_AlwaysSeparator(prefix, key) ==
    prefix \o ":" \o key

prefixKey(prefix, key) ==
    IF prefix = "" THEN key ELSE prefix \o ":" \o key

\* variant: a store error is wrapped before it is returned
Forward_WrapsError(r, skey) ==
    [data |-> r.data, ttls |-> r.ttls, value |-> r.value, ok |-> r.ok, dur |-> r.dur,
     err |-> IF r.err = NoErr THEN NoErr ELSE "cache: " \o r.err,
     skey |-> skey, serr |-> r.err, calls |-> 1]

Forward(r, skey) ==
    [data |-> r.data, ttls |-> r.ttls, value |-> r.value, ok |-> r.ok, dur |-> r.dur, err |-> r.err,
     skey |-> skey, serr |-> r.err, calls |-> 1]

RequestCacheGet(prefix, d, t, se, em, key, clk) ==
    Forward(MockGet(d, t, se, em, prefixKey(prefix, key), clk), prefixKey(prefix, key))

RequestCacheSet(prefix, d, t, se, em, key, value, ttl, clk) ==
    Forward(MockSet(d, t, se, em, prefixKey(prefix, key), value, ttl, clk), prefixKey(prefix, key))

RequestCacheDelete(prefix, d, t, se, em, key) ==
    Forward(MockDelete(d, t, se, em, prefixKey(prefix, key)), prefixKey(prefix, key))

RequestCacheExists(prefix, d, t, se, em, key, clk) ==
    Forward(MockExists(d, t, se, em, prefixKey(prefix, key), clk), prefixKey(prefix, key))

RequestCacheSetNX(prefix, d, t, se, em, key, value, ttl, clk) ==
    Forward(MockSetNX(d, t, se, em, prefixKey(prefix, key), value, ttl, clk), prefixKey(prefix, key))

RequestCacheGetTTL(prefix, d, t, se, em, key, clk) ==
    Forward(MockGetTTL(d, t, se, em, prefixKey(prefix, key), clk), prefixKey(prefix, key))

RequestCacheClear(prefix, d, t, se, em) ==
    Forward(MockClear(d, t, se, em), "")

RequestCacheClose(prefix, d, t, se, em) ==
    Forward(MockClose(d, t, se, em), "")

\* ------------------------------------------------------------------------
\* Cache-aside layer: actions (one per RequestCache method, sequential caller)
\* ------------------------------------------------------------------------
Record(op, prefix, key, value, ttl, r) ==
    [op |-> op, prefix |-> prefix, key |-> key, arg |-> value, ttl |-> ttl,
     value |-> r.value, ok |-> r.ok, dur |-> r.dur, err |-> r.err, skey |-> r.skey, serr |-> r.serr, calls |-> r.calls]

Apply(op, prefix, key, value, ttl, r) ==
    /\ data' = r.data
    /\ ttls' = r.ttls
    /\ lastOp' = Record(op, prefix, key, value, ttl, r)
    /\ UNCHANGED <<shouldError, errorMsg, now, nxVars, pmVars, adapterVars, fnVars, keyVars, envVars>>

CacheInit ==
    /\ data = EmptyMap
    /\ ttls = EmptyMap
    /\ shouldError = FALSE
    /\ errorMsg = NoMsg
    /\ now = 0
    /\ lastOp = [op |-> "NewRequestCache", prefix |-> "", key |-> "", arg |-> NilValue, ttl |-> 0,
                 value |-> NilValue, ok |-> FALSE, dur |-> 0,
                 err |-> NoErr, skey |-> "", serr |-> NoErr, calls |-> 0]
    /\ lastSet = EmptyMap

CacheGet(p, k) ==
    /\ Apply("Get", p, k, NilValue, 0, RequestCacheGet(p, data, ttls, shouldError, errorMsg, k, now))
    /\ UNCHANGED lastSet

CacheSet(p, k, v, ttl) ==
    LET r == RequestCacheSet(p, data, ttls, shouldError, errorMsg, k, v, ttl, now)
    IN /\ Apply("Set", p, k, v, ttl, r)
       /\ lastSet' = IF r.err = NoErr
                     THEN IF ttl > 0
                          THEN MapSet(lastSet, r.skey, [value |-> v, deadline |-> now + ttl])
                          ELSE MapDelete(lastSet, r.skey)
                     ELSE lastSet

CacheDelete(p, k) ==
    LET r == RequestCacheDelete(p, data, ttls, shouldError, errorMsg, k)
    IN /\ Apply("Delete", p, k, NilValue, 0, r)
       /\ lastSet' = IF r.err = NoErr THEN MapDelete(lastSet, r.skey) ELSE lastSet

CacheExists(p, k) ==
    /\ Apply("Exists", p, k, NilValue, 0, RequestCacheExists(p, data, ttls, shouldError, errorMsg, k, now))
    /\ UNCHANGED lastSet

CacheSetNX(p, k, v, ttl) ==
    LET r == RequestCacheSetNX(p, data, ttls, shouldError, errorMsg, k, v, ttl, now)
    IN /\ Apply("SetNX", p, k, v, ttl, r)
       /\ lastSet' = IF r.err = NoErr /\ r.ok
                     THEN MapDelete(lastSet, r.skey) ELSE lastSet

CacheGetTTL(p, k) ==
    /\ Apply("GetTTL", p, k, NilValue, 0, RequestCacheGetTTL(p, data, ttls, shouldError, errorMsg, k, now))
    /\ UNCHANGED lastSet

CacheClear(p) ==
    LET r == RequestCacheClear(p, data, ttls, shouldError, errorMsg)
    IN /\ Apply("Clear", p, "", NilValue, 0, r)
       /\ lastSet' = IF r.err = NoErr THEN EmptyMap ELSE lastSet

CacheClose(p) ==
    /\ Apply("Close", p, "", NilValue, 0, RequestCacheClose(p, data, ttls, shouldError, errorMsg))
    /\ UNCHANGED lastSet

\* MockKVStore.SetError
SetError(se, em) ==
    /\ shouldError' = se
    /\ errorMsg' = em
    /\ UNCHANGED <<data, ttls, now, lastOp, lastSet, nxVars, pmVars, adapterVars, fnVars, keyVars, envVars>>

\* time passes
Tick ==
    /\ now < MaxTime
    /\ now' = now + 1
    /\ UNCHANGED <<data, ttls, shouldError, errorMsg, lastOp, lastSet, nxVars, pmVars, adapterVars, fnVars, keyVars, envVars>>

CacheOps(P, K, V, T) ==
    \/ \E p \in P, k \in K : CacheGet(p, k)
    \/ \E p \in P, k \in K, v \in V, ttl \in T : CacheSet(p, k, v, ttl)
    \/ \E p \in P, k \in K : CacheDelete(p, k)
    \/ \E p \in P, k \in K : CacheExists(p, k)
    \/ \E p \in P, k \in K, v \in V, ttl \in T : CacheSetNX(p, k, v, ttl)
    \/ \E p \in P, k \in K : CacheGetTTL(p, k)
    \/ \E p \in P : CacheClear(p)
    \/ \E p \in P : CacheClose(p)

\* a working store, used through two caches with different prefixes
CacheNext ==
    \/ CacheOps(Prefixes, Keys, Values, TTLs)
    \/ Tick

\* a store that can be made to fail, used through one cache
CacheErrNext ==
    \/ CacheOps({"w"}, Keys, Values, TTLs)
    \/ \E em \in ErrorMsgs : SetError(TRUE, em)
    \/ SetError(FALSE, NoMsg)
    \/ Tick

\* ------------------------------------------------------------------------
\* Concurrent SetNX: MockKVStore.SetNX takes no lock, so its reads and
\* writes of the two maps interleave with those of other callers.  Each
\* caller goes through RequestCache.SetNX with prefix "w" and key "a".
\* ------------------------------------------------------------------------
Callers == 1..NumCallers
NXKey == prefixKey("w", "a")

NXInit ==
    /\ nxpc = [i \in Callers |-> "idle"]
    /\ nxarg = [i \in Callers |-> [value |-> NilValue, ttl |-> 0]]
    /\ nxret = [i \in Callers |-> FALSE]

\* RequestCache.SetNX is entered and calls c.store.SetNX(ctx, c.prefixKey(key), value, ttl)
NXCall(i, v, ttl) ==
    /\ nxpc[i] = "idle"
    /\ nxpc' = [nxpc EXCEPT ![i] = "checkError"]
    /\ nxarg' = [nxarg EXCEPT ![i] = [value |-> v, ttl |-> ttl]]
    /\ UNCHANGED <<nxret, cacheVars, pmVars, adapterVars, fnVars, keyVars, envVars>>

\* if m.shouldError { return false, err }
NXCheckError(i) ==
    /\ nxpc[i] = "checkError"
    /\ nxpc' = [nxpc EXCEPT ![i] = IF shouldError THEN "done" ELSE "checkExpiry"]
    /\ UNCHANGED <<nxarg, nxret, cacheVars, pmVars, adapterVars, fnVars, keyVars, envVars>>

\* if expiry, exists := m.ttls[key]; exists && time.Now().After(expiry) { delete; delete }
NXCheckExpiry(i) ==
    /\ nxpc[i] = "checkExpiry"
    /\ data' = IF Expired(ttls, NXKey, now) THEN MapDelete(data, NXKey) ELSE data
    /\ ttls' = IF Expired(ttls, NXKey, now) THEN MapDelete(ttls, NXKey) ELSE ttls
    /\ nxpc' = [nxpc EXCEPT ![i] = "checkExists"]
    /\ UNCHANGED <<nxarg, nxret, shouldError, errorMsg, now, lastOp, lastSet, pmVars, adapterVars, fnVars, keyVars, envVars>>

\* if _, exists := m.data[key]; exists { return false, nil }
NXCheckExists(i) ==
    /\ nxpc[i] = "checkExists"
    /\ nxpc' = [nxpc EXCEPT ![i] = IF NXKey \in DOMAIN data THEN "done" ELSE "writeData"]
    /\ UNCHANGED <<nxarg, nxret, cacheVars, pmVars, adapterVars, fnVars, keyVars, envVars>>

\* m.data[key] = value
NXWriteData(i) ==
    /\ nxpc[i] = "writeData"
    /\ data' = MapSet(data, NXKey, nxarg[i].value)
    /\ nxpc' = [nxpc EXCEPT ![i] = "writeTTL"]
    /\ UNCHANGED <<nxarg, nxret, ttls, shouldError, errorMsg, now, lastOp, lastSet, pmVars, adapterVars, fnVars, keyVars, envVars>>

\* if ttl > 0 { m.ttls[key] = time.Now().Add(ttl) }; return true, nil
NXWriteTTL(i) ==
    /\ nxpc[i] = "writeTTL"
    /\ ttls' = IF nxarg[i].ttl > 0 THEN MapSet(ttls, NXKey, now + nxarg[i].ttl) ELSE ttls
    /\ nxret' = [nxret EXCEPT ![i] = TRUE]
    /\ nxpc' = [nxpc EXCEPT ![i] = "done"]
    /\ UNCHANGED <<nxarg, data, shouldError, errorMsg, now, lastOp, lastSet, pmVars, adapterVars, fnVars, keyVars, envVars>>

\* two goroutines inside a map write at once: the runtime may stop the
\* process with "fatal error: concurrent map writes"
NXFatal(i) ==
    /\ nxpc[i] \in {"writeData", "writeTTL"}
    /\ \E j \in Callers \ {i} : nxpc[j] \in {"writeData", "writeTTL"}
    /\ nxpc' = [j \in Callers |-> "fatal"]
    /\ UNCHANGED <<nxarg, nxret, cacheVars, pmVars, adapterVars, fnVars, keyVars, envVars>>

NXNext ==
    \/ \E i \in Callers, v \in Values, ttl \in TTLs : NXCall(i, v, ttl)
    \/ \E i \in Callers : NXCheckError(i)
    \/ \E i \in Callers : NXCheckExpiry(i)
    \/ \E i \in Callers : NXCheckExists(i)
    \/ \E i \in Callers : NXWriteData(i)
    \/ \E i \in Callers : NXWriteTTL(i)
    \/ \E i \in Callers : NXFatal(i)

\* ------------------------------------------------------------------------
\* ProviderManager: two slices, appended to by Register*Provider and read
\* by the listings and the lookups by name.  A provider is known by what
\* GetName returns; id tells apart two providers with the same name.
\* ------------------------------------------------------------------------
NilProvider == [name |-> "<nil>", id |-> 0]
WeatherPool == {[name |-> "NWS", id |-> 1], [name |-> "NWS", id |-> 2], [name |-> "nws", id |-> 3]}
GeocodePool == {[name |-> "Census", id |-> 4], [name |-> "Census", id |-> 5]}
LookupNames == {"NWS", "nws", "Census", "OpenMeteo"}
Registrars == 1..NumRegistrars

\* append(pm.weatherProviders, provider)
AppendProvider_ReplacesSameName(list, p) ==
    IF \E i \in DOMAIN list : list[i].name = p.name
    THEN [i \in DOMAIN list |-> IF list[i].name = p.name THEN p ELSE list[i]]
    ELSE Append(list, p)

AppendProvider(list, p) == Append(list, p)

\* for _, provider := range list { if provider.GetName() == name { return provider } }
RECURSIVE ProviderByNameFrom(_, _, _)
ProviderByNameFrom(list, name, i) ==
    IF i > Len(list) THEN NilProvider
    ELSE IF list[i].name = name THEN list[i]
    ELSE ProviderByNameFrom(list, name, i + 1)

RECURSIVE ProviderByNameBack(_, _, _)
ProviderByNameBack(list, name, i) ==
    IF i < 1 THEN NilProvider
    ELSE IF list[i].name = name THEN list[i]
    ELSE ProviderByNameBack(list, name, i - 1)

ProviderByName_LastMatch(list, name) == ProviderByNameBack(list, name, Len(list))

ProviderByName(list, name) == ProviderByNameFrom(list, name, 1)

PMRecord(op, name, found, list, at) ==
    [op |-> op, name |-> name, result |-> found, list |-> list, at |-> at]

\* NewProviderManager
PMInit ==
    /\ weatherProviders = <<>>
    /\ geocodeProviders = <<>>
    /\ pmLast = PMRecord("NewProviderManager", "", NilProvider, <<>>, 0)
    /\ regW = <<>>
    /\ regG = <<>>
    /\ regpc = [i \in Registrars |-> "idle"]
    /\ regarg = [i \in Registrars |-> [cap |-> "none", provider |-> NilProvider]]
    /\ reglocal = [i \in Registrars |-> <<>>]
    /\ raced = FALSE

\* a registration of this capability has read the slice and not yet written it
MidRegistration(cap) == \E j \in Registrars : regpc[j] = "read" /\ regarg[j].cap = cap

RegisterWeatherProvider(p) ==
    /\ Len(weatherProviders) < MaxProviders
    /\ weatherProviders' = AppendProvider(weatherProviders, p)
    /\ regW' = Append(regW, p)
    /\ UNCHANGED <<geocodeProviders, pmLast, regG, regpc, regarg, reglocal, raced, cacheVars, nxVars, adapterVars, fnVars, keyVars, envVars>>

RegisterGeocodeProvider(p) ==
    /\ Len(geocodeProviders) < MaxProviders
    /\ geocodeProviders' = AppendProvider(geocodeProviders, p)
    /\ regG' = Append(regG, p)
    /\ UNCHANGED <<weatherProviders, pmLast, regW, regpc, regarg, reglocal, raced, cacheVars, nxVars, adapterVars, fnVars, keyVars, envVars>>

GetWeatherProviders ==
    /\ pmLast' = PMRecord("GetWeatherProviders", "", NilProvider, weatherProviders, Len(regW))
    /\ raced' = (raced \/ MidRegistration("weather"))
    /\ UNCHANGED <<weatherProviders, geocodeProviders, regW, regG, regpc, regarg, reglocal, cacheVars, nxVars, adapterVars, fnVars, keyVars, envVars>>

GetGeocodeProviders ==
    /\ pmLast' = PMRecord("GetGeocodeProviders", "", NilProvider, geocodeProviders, Len(regG))
    /\ raced' = (raced \/ MidRegistration("geocode"))
    /\ UNCHANGED <<weatherProviders, geocodeProviders, regW, regG, regpc, regarg, reglocal, cacheVars, nxVars, adapterVars, fnVars, keyVars, envVars>>

GetWeatherProviderByName(name) ==
    /\ pmLast' = PMRecord("GetWeatherProviderByName", name,
                          ProviderByName(weatherProviders, name), <<>>, Len(regW))
    /\ raced' = (raced \/ MidRegistration("weather"))
    /\ UNCHANGED <<weatherProviders, geocodeProviders, regW, regG, regpc, regarg, reglocal, cacheVars, nxVars, adapterVars, fnVars, keyVars, envVars>>

GetGeocodeProviderByName(name) ==
    /\ pmLast' = PMRecord("GetGeocodeProviderByName", name,
                          ProviderByName(geocodeProviders, name), <<>>, Len(regG))
    /\ raced' = (raced \/ MidRegistration("geocode"))
    /\ UNCHANGED <<weatherProviders, geocodeProviders, regW, regG, regpc, regarg, reglocal, cacheVars, nxVars, adapterVars, fnVars, keyVars, envVars>>

PMReads ==
    \/ GetWeatherProviders
    \/ GetGeocodeProviders
    \/ \E n \in LookupNames : GetWeatherProviderByName(n)
    \/ \E n \in LookupNames : GetGeocodeProviderByName(n)

PMNext ==
    \/ \E p \in WeatherPool : RegisterWeatherProvider(p)
    \/ \E p \in GeocodePool : RegisterGeocodeProvider(p)
    \/ PMReads

\* Register*Provider called from several goroutines: the statement
\* pm.xs = append(pm.xs, provider) reads the slice, then writes it back.
RegisterRead(i, cap, p) ==
    /\ regpc[i] = "idle"
    /\ regpc' = [regpc EXCEPT ![i] = "read"]
    /\ regarg' = [regarg EXCEPT ![i] = [cap |-> cap, provider |-> p]]
    /\ reglocal' = [reglocal EXCEPT ![i] = IF cap = "weather" THEN weatherProviders ELSE geocodeProviders]
    /\ raced' = (raced \/ MidRegistration(cap))
    /\ UNCHANGED <<weatherProviders, geocodeProviders, pmLast, regW, regG, cacheVars, nxVars, adapterVars, fnVars, keyVars, envVars>>

RegisterWrite(i) ==
    /\ regpc[i] = "read"
    /\ regpc' = [regpc EXCEPT ![i] = "done"]
    /\ IF regarg[i].cap = "weather"
       THEN /\ weatherProviders' = AppendProvider(reglocal[i], regarg[i].provider)
            /\ regW' = Append(regW, regarg[i].provider)
            /\ UNCHANGED <<geocodeProviders, regG>>
       ELSE /\ geocodeProviders' = AppendProvider(reglocal[i], regarg[i].provider)
            /\ regG' = Append(regG, regarg[i].provider)
            /\ UNCHANGED <<weatherProviders, regW>>
    /\ UNCHANGED <<pmLast, regarg, reglocal, raced, cacheVars, nxVars, adapterVars, fnVars, keyVars, envVars>>

PMConcNext ==
    \/ \E i \in Registrars, p \in WeatherPool : RegisterRead(i, "weather", p)
    \/ \E i \in Registrars, p \in GeocodePool : RegisterRead(i, "geocode", p)
    \/ \E i \in Registrars : RegisterWrite(i)
    \/ PMReads

\* ------------------------------------------------------------------------
\* Go values used by the adapters.  A string is the sequence of its
\* characters; a float64 is the rational n/d with d > 0; an int is a
\* two's-complement word of IntBits bits (Go's int has 64: the model keeps
\* the wrap-around and scales the width down).
\* ------------------------------------------------------------------------
IntBits == 8
MaxInt == 2 ^ (IntBits - 1) - 1
MinInt == -(2 ^ (IntBits - 1))
WrapInt(x) == ((x - MinInt) % (2 ^ IntBits)) + MinInt

Rat(num, den) == [n |-> num, d |-> den]
RatInt(i) == Rat(i, 1)
RatZero == Rat(0, 1)
RatEq(a, b) == a.n * b.d = b.n * a.d
RatLess(a, b) == a.n * b.d < b.n * a.d
RatLeq(a, b) == a.n * b.d <= b.n * a.d

LowerLetters == <<"a", "b", "c", "d", "e", "f", "g", "h", "i", "j", "k", "l", "m",
                  "n", "o", "p", "q", "r", "s", "t", "u", "v", "w", "x", "y", "z">>
UpperLetters == <<"A", "B", "C", "D", "E", "F", "G", "H", "I", "J", "K", "L", "M",
                  "N", "O", "P", "Q", "R", "S", "T", "U", "V", "W", "X", "Y", "Z">>
Digits == <<"0", "1", "2", "3", "4", "5", "6", "7", "8", "9">>
Whitespace == {" ", "\t", "\n"}

IndexIn(seq, c) == IF \E i \in DOMAIN seq : seq[i] = c
                   THEN CHOOSE i \in DOMAIN seq : seq[i] = c
                   ELSE 0

\* unicode.ToUpper / unicode.ToLower on one character
UpperOf == [c \in {LowerLetters[i] : i \in DOMAIN LowerLetters} |-> UpperLetters[IndexIn(LowerLetters, c)]]
LowerOf == [c \in {UpperLetters[i] : i \in DOMAIN UpperLetters} |-> LowerLetters[IndexIn(UpperLetters, c)]]
ToUpperChar(c) == IF c \in DOMAIN UpperOf THEN UpperOf[c] ELSE c
ToLowerChar(c) == IF c \in DOMAIN LowerOf THEN LowerOf[c] ELSE c

\* strings.ToUpper, strings.ToLower
ToUpper(str) == [i \in DOMAIN str |-> ToUpperChar(str[i])]
ToLower(str) == [i \in DOMAIN str |-> ToLowerChar(str[i])]

\* strings.TrimSpace
RECURSIVE TrimLeft(_)
TrimLeft(str) == IF str # <<>> /\ Head(str) \in Whitespace THEN TrimLeft(Tail(str)) ELSE str
RECURSIVE TrimRight(_)
TrimRight(str) ==
    IF str # <<>> /\ str[Len(str)] \in Whitespace THEN TrimRight(SubSeq(str, 1, Len(str) - 1)) ELSE str
TrimSpace(str) == TrimRight(TrimLeft(str))

\* strings.Fields: the maximal runs of non-whitespace characters
RECURSIVE FieldsFrom(_, _, _)
FieldsFrom(str, i, word) ==
    IF i > Len(str) THEN (IF word = <<>> THEN <<>> ELSE <<word>>)
    ELSE IF str[i] \in Whitespace
         THEN (IF word = <<>> THEN <<>> ELSE <<word>>) \o FieldsFrom(str, i + 1, <<>>)
    ELSE FieldsFrom(str, i + 1, Append(word, str[i]))
Fields(str) == FieldsFrom(str, 1, <<>>)

\* strconv.Atoi: an optional sign, then one or more decimal digits; a value
\* that does not fit an int is a range error
RECURSIVE DigitsValue(_, _)
DigitsValue(str, acc) ==
    IF str = <<>> THEN acc ELSE DigitsValue(Tail(str), acc * 10 + (IndexIn(Digits, Head(str)) - 1))
Atoi(str) ==
    LET signed == str # <<>> /\ Head(str) \in {"+", "-"}
        body == IF signed THEN Tail(str) ELSE str
        val == IF signed /\ Head(str) = "-" THEN -DigitsValue(body, 0) ELSE DigitsValue(body, 0)
    IN IF body = <<>> \/ \E i \in DOMAIN body : IndexIn(Digits, body[i]) = 0
       THEN [ok |-> FALSE, val |-> 0]
       ELSE IF val < MinInt \/ val > MaxInt THEN [ok |-> FALSE, val |-> 0]
       ELSE [ok |-> TRUE, val |-> val]

\* ------------------------------------------------------------------------
\* Adapters: NWSProvider (weather) and CensusProvider (geocoding).  A call
\* runs its upstream stages one after the other; each stage hands one
\* request to the HTTP client and handles what comes back.  An error is the
\* chain of its messages, outermost first.
\* ------------------------------------------------------------------------
NoError == <<>>
NWSName == "NWS"
CensusName == "Census"
Stations == {"S1", "S2"}

\* NWSQuantitativeValue: Value *float64 (nil when the upstream gives none)
NoValue == [present |-> FALSE, val |-> RatZero]
Value(r) == [present |-> TRUE, val |-> r]

\* NWSObservationProperties
Observation(ts, temperature, humidity, pressure, windSpeed, windDirection, visibility) ==
    [ts |-> ts, temperature |-> temperature, relativeHumidity |-> humidity,
     barometricPressure |-> pressure, windSpeed |-> windSpeed,
     windDirection |-> windDirection, visibility |-> visibility]

\* NWSForecastPeriod
Period(id, startTime, endTime, temperature, unit, windSpeed, windDirection) ==
    [id |-> id, startTime |-> startTime, endTime |-> endTime, temperature |-> temperature,
     temperatureUnit |-> unit, windSpeed |-> windSpeed, windDirection |-> windDirection]

\* models.Forecast (ref tells which upstream element it was made from;
\* fields no adapter assigns keep their zero value)
Forecast(ref, validTime, temperature, humidity, pressure, windSpeed, windDirection, visibility) ==
    [source |-> "NWS", ref |-> ref, validTime |-> validTime, temperature |-> temperature,
     humidity |-> humidity, pressure |-> pressure, windSpeed |-> windSpeed,
     windDirection |-> windDirection, visibility |-> visibility, cloudCover |-> RatZero]

\* the upstream values the adapter specification draws from
ObservationValues ==
    {<<>>,
     <<Observation("", Value(RatInt(21)), Value(RatInt(55)), Value(RatInt(101325)),
                   Value(RatInt(3)), Value(RatInt(180)), Value(RatInt(16000)))>>,
     <<Observation("", Value(RatInt(-300)), Value(RatInt(150)), NoValue,
                   NoValue, Value(RatInt(360)), NoValue)>>,
     <<Observation("", NoValue, Value(RatInt(40)), Value(RatInt(100000)),
                   NoValue, NoValue, Value(RatInt(500)))>>}
Periods ==
    {Period("P1", "rfc3339", "rfc3339", 75, "F", <<"5", " ", "m", "p", "h">>, <<"N", "W">>),
     Period("P2", "rfc3339", "rfc3339", 60, "F", <<"1", "0", " ", "m", "p", "h">>, <<"s">>),
     Period("P3", "bad", "rfc3339", 70, "F", <<>>, <<>>),
     Period("P4", "rfc3339", "bad", 70, "F", <<>>, <<>>)}

\* NWSAlertProperties (the fields nwsAlertToWeatherAlert converts)
Alert(id, severity, urgency, category, onset, expires) ==
    [id |-> id, severity |-> severity, urgency |-> urgency, category |-> category,
     onset |-> onset, expires |-> expires]

\* WeatherAlert (ref is the upstream ID; a time never assigned is the zero time)
WeatherAlert(ref, severity, urgency, category, startTime, endTime) ==
    [ref |-> ref, severity |-> severity, urgency |-> urgency, category |-> category,
     startTime |-> startTime, endTime |-> endTime]

Alerts ==
    {Alert("A1", <<"S", "e", "v", "e", "r", "e">>, <<"I", "m", "m", "e", "d", "i", "a", "t", "e">>,
           <<"M", "e", "t">>, "rfc3339", "rfc3339"),
     Alert("A2", <<"M", "I", "N", "O", "R">>, <<"f", "u", "t", "u", "r", "e">>, <<>>, "", "bad"),
     Alert("A3", <<>>, <<"E", "x", "p", "e", "c", "t", "e", "d">>, <<"G", "E", "O">>, "bad", "")}

\* CensusAddressComponents (the fields buildAddressLine1 reads)
Components(from, to, preDirection, preType, streetName, suffixType, suffixDirection, preQualifier, suffixQualifier) ==
    [fromAddress |-> from, toAddress |-> to, preDirection |-> preDirection, preType |-> preType,
     streetName |-> streetName, suffixType |-> suffixType, suffixDirection |-> suffixDirection,
     preQualifier |-> preQualifier, suffixQualifier |-> suffixQualifier]

\* CensusAddressMatch / CensusReverseMatch
Match(id, matchedAddress, components) ==
    [id |-> id, matchedAddress |-> matchedAddress, addressComponents |-> components]

\* models.Place (ref tells which upstream match it was made from)
Place(ref, displayName, addressLine1, confidence) ==
    [source |-> "Census", ref |-> ref, displayName |-> displayName,
     addressLine1 |-> addressLine1, confidence |-> confidence]

Matches ==
    {Match("M1", <<"1", " ", "A", " ", "S", "t">>, Components("1", "9", "", "", "A", "St", "", "", "")),
     Match("M2", <<"2", " ", "b">>, Components("2", "2", "N", "", "B", "", "", "", ""))}
Addresses == {<<"1", " ", "a", " ", "s", "t">>, <<"2", " ", "a">>}
Timestamps == {"", "bad", "rfc3339"}
Days == (-1..MaxDays) \cup {MaxInt \div 2 + 1, MinInt \div 2 - 1}
WeatherOps == {"GetCurrentWeather", "GetForecast", "GetAlerts"}
GeocodeOps == {"GeocodeAddress", "ReverseGeocode"}

SeqsUpTo(S, n) == UNION {[1..k -> S] : k \in 0..n}

\* what the HTTP client and the upstream can answer to one request
Resp(outcome, items, ts) == [outcome |-> outcome, items |-> items, ts |-> ts]
CtxResp == Resp("ctx", <<>>, "")
FailedResps == {Resp(o, <<>>, "") : o \in {"neterr", "status", "badjson", "badshape"}}
OkResps(stage) ==
    CASE stage = "point" -> {Resp("ok", <<>>, "")}
      [] stage = "stations" -> {Resp("ok", l, "") : l \in SeqsUpTo(Stations, MaxStations)}
      [] stage = "observation" -> {Resp("ok", v, ts) : v \in ObservationValues, ts \in Timestamps}
      [] stage = "forecast" -> {Resp("ok", l, "") : l \in SeqsUpTo(Periods, MaxPeriods)}
      [] stage = "alerts" -> {Resp("ok", l, "") : l \in SeqsUpTo(Alerts, MaxAlerts)}
      [] stage = "geocode" -> {Resp("ok", l, "") : l \in SeqsUpTo(Matches, MaxMatches)}
      [] stage = "reverse" -> {Resp("ok", l, "") : l \in SeqsUpTo(Matches, MaxMatches)}
Responses(stage) == FailedResps \cup OkResps(stage)

\* fmt.Errorf("msg: %w", err)
Wrap_DropsMessage(msg, err) == err

Wrap(msg, err) == <<msg>> \o err

\* http.NewRequestWithContext(ctx, ...) then HTTPClient.Do(req): a request
\* whose context is already done is not sent
RoundTripRefused_IgnoresContext(cancelled) == FALSE

RoundTripRefused(cancelled) == cancelled

\* makeRequest, given what Do and the body produced
MakeRequest(resp) ==
    CASE resp.outcome = "ctx" -> [err |-> Wrap("HTTP request failed", <<"context canceled">>), body |-> resp]
      [] resp.outcome = "neterr" -> [err |-> Wrap("HTTP request failed", <<"connection error">>), body |-> resp]
      [] resp.outcome = "status" -> [err |-> <<"API request failed with status">>, body |-> resp]
      [] resp.outcome = "badjson" -> [err |-> Wrap("failed to decode response", <<"invalid JSON">>), body |-> resp]
      [] OTHER -> [err |-> NoError, body |-> resp]

CensusMakeRequest_IgnoresStatus(resp) ==
    CASE resp.outcome = "ctx" -> [err |-> Wrap("HTTP request failed", <<"context canceled">>), body |-> resp]
      [] resp.outcome = "neterr" -> [err |-> Wrap("HTTP request failed", <<"connection error">>), body |-> resp]
      [] resp.outcome = "badjson" -> [err |-> Wrap("failed to decode response", <<"invalid JSON">>), body |-> resp]
      [] OTHER -> [err |-> NoError, body |-> resp]

CensusMakeRequest(resp) ==
    CASE resp.outcome = "ctx" -> [err |-> Wrap("HTTP request failed", <<"context canceled">>), body |-> resp]
      [] resp.outcome = "neterr" -> [err |-> Wrap("HTTP request failed", <<"connection error">>), body |-> resp]
      [] resp.outcome = "status" -> [err |-> <<"API request failed with status">>, body |-> resp]
      [] resp.outcome = "badjson" -> [err |-> Wrap("failed to decode response", <<"invalid JSON">>), body |-> resp]
      [] OTHER -> [err |-> NoError, body |-> resp]

\* json.Unmarshal(body, &typed)
Unmarshal(body) == IF body.outcome = "badshape" THEN <<"json: cannot unmarshal">> ELSE NoError

\* how a stage ends: go on to the next stage, fail, or return data
Continue(next, station) == [next |-> next, err |-> NoError, nil |-> TRUE, items |-> <<>>, station |-> station]
Fail(err) == [next |-> "done", err |-> err, nil |-> TRUE, items |-> <<>>, station |-> ""]
Return(items, isNil) == [next |-> "done", err |-> NoError, nil |-> isNil, items |-> items, station |-> ""]

getGridPoint(mr) ==
    IF mr.err # NoError THEN mr.err
    ELSE IF Unmarshal(mr.body) # NoError THEN Wrap("failed to parse point response", Unmarshal(mr.body))
    ELSE NoError

\* the decoded observation: the timestamp, and the quantitative values the
\* body carries (none of them when it carries no properties)
ObservationOf(body) ==
    IF body.items = <<>>
    THEN Observation(body.ts, NoValue, NoValue, NoValue, NoValue, NoValue, NoValue)
    ELSE [body.items[1] EXCEPT !.ts = body.ts]

ValueOrZero(q) == IF q.present THEN q.val ELSE RatZero
RatDiv_Unscaled(a, k) == a

RatDiv(a, k) == Rat(a.n, a.d * k)

observationToForecast(obs) ==
    IF obs.ts # "" /\ obs.ts # "rfc3339"
    THEN Fail(Wrap("failed to parse timestamp", <<"parsing time">>))
    ELSE Return(<<Forecast("observation", IF obs.ts = "" THEN "now" ELSE obs.ts,
                           ValueOrZero(obs.temperature),
                           ValueOrZero(obs.relativeHumidity),
                           RatDiv(ValueOrZero(obs.barometricPressure), 100),
                           ValueOrZero(obs.windSpeed),
                           ValueOrZero(obs.windDirection),
                           RatDiv(ValueOrZero(obs.visibility), 1000))>>, FALSE)

\* stationsResp.Features[0].Properties.StationIdentifier
ObservedStation_Last(features) == features[Len(features)]

ObservedStation(features) == features[1]

GetCurrentWeatherStage(stage, mr) ==
    CASE stage = "point" ->
           IF getGridPoint(mr) # NoError
           THEN Fail(Wrap("failed to get grid point", getGridPoint(mr)))
           ELSE Continue("stations", "")
      [] stage = "stations" ->
           IF mr.err # NoError THEN Fail(Wrap("failed to get observation stations", mr.err))
           ELSE IF Unmarshal(mr.body) # NoError
                THEN Fail(Wrap("failed to parse stations response", Unmarshal(mr.body)))
           ELSE IF Len(mr.body.items) = 0 THEN Fail(<<"no observation stations found">>)
           ELSE Continue("observation", ObservedStation(mr.body.items))
      [] stage = "observation" ->
           IF mr.err # NoError THEN Fail(Wrap("failed to get current observation", mr.err))
           ELSE IF Unmarshal(mr.body) # NoError
                THEN Fail(Wrap("failed to parse observation response", Unmarshal(mr.body)))
           ELSE observationToForecast(ObservationOf(mr.body))

directions ==
    <<[k |-> <<"N">>, v |-> Rat(0, 10)],             [k |-> <<"N", "N", "E">>, v |-> Rat(225, 10)],
      [k |-> <<"N", "E">>, v |-> Rat(450, 10)],       [k |-> <<"E", "N", "E">>, v |-> Rat(675, 10)],
      [k |-> <<"E">>, v |-> Rat(900, 10)],            [k |-> <<"E", "S", "E">>, v |-> Rat(1125, 10)],
      [k |-> <<"S", "E">>, v |-> Rat(1350, 10)],      [k |-> <<"S", "S", "E">>, v |-> Rat(1575, 10)],
      [k |-> <<"S">>, v |-> Rat(1800, 10)],           [k |-> <<"S", "S", "W">>, v |-> Rat(2025, 10)],
      [k |-> <<"S", "W">>, v |-> Rat(2250, 10)],      [k |-> <<"W", "S", "W">>, v |-> Rat(2475, 10)],
      [k |-> <<"W">>, v |-> Rat(2700, 10)],           [k |-> <<"W", "N", "W">>, v |-> Rat(2925, 10)],
      [k |-> <<"N", "W">>, v |-> Rat(3150, 10)],      [k |-> <<"N", "N", "W">>, v |-> Rat(3375, 10)]>>

parseWindDirection_CaseSensitive(direction) ==
    LET hits == {i \in DOMAIN directions : directions[i].k = direction}
    IN IF hits # {} THEN directions[CHOOSE i \in hits : TRUE].v ELSE RatZero

parseWindDirection(direction) ==
    LET hits == {i \in DOMAIN directions : directions[i].k = ToUpper(direction)}
    IN IF hits # {} THEN directions[CHOOSE i \in hits : TRUE].v ELSE RatZero

PeriodWindSpeed_AnyTokenCount(text) ==
    IF text # <<>> /\ Len(Fields(text)) >= 1 /\ Atoi(Fields(text)[1]).ok
    THEN Rat(Atoi(Fields(text)[1]).val * 1397, 3125)
    ELSE RatZero

\* windParts := strings.Fields(period.WindSpeed); strconv.Atoi(windParts[0]); mph to m/s
\* (0.44704 is 1397/3125)
PeriodWindSpeed(text) ==
    IF text # <<>> /\ Len(Fields(text)) >= 2 /\ Atoi(Fields(text)[1]).ok
    THEN Rat(Atoi(Fields(text)[1]).val * 1397, 3125)
    ELSE RatZero

\* Fahrenheit to Celsius when the unit is "F"
PeriodTemperature_AnyCaseUnit(temperature, unit) ==
    IF unit \in {"F", "f"} THEN Rat((temperature - 32) * 5, 9) ELSE RatInt(temperature)

PeriodTemperature(temperature, unit) ==
    IF unit = "F" THEN Rat((temperature - 32) * 5, 9) ELSE RatInt(temperature)

periodToForecast(period) ==
    LET forecast == Forecast(period.id, period.startTime,
                             PeriodTemperature(period.temperature, period.temperatureUnit),
                             RatZero, RatZero,
                             PeriodWindSpeed(period.windSpeed),
                             parseWindDirection(period.windDirection),
                             RatZero)
    IN IF period.startTime # "rfc3339"
       THEN [err |-> Wrap("failed to parse start time", <<"parsing time">>), item |-> forecast]
       ELSE IF period.endTime # "rfc3339"
       THEN [err |-> Wrap("failed to parse end time", <<"parsing time">>), item |-> forecast]
       ELSE [err |-> NoError, item |-> forecast]

RECURSIVE ConvertPeriods(_, _, _)
ConvertPeriods(periods, i, maxPeriods) ==
    IF i > maxPeriods THEN <<>>
    ELSE IF periodToForecast(periods[i]).err # NoError THEN ConvertPeriods(periods, i + 1, maxPeriods)
    ELSE <<periodToForecast(periods[i]).item>> \o ConvertPeriods(periods, i + 1, maxPeriods)

GetForecastStage(stage, mr, days) ==
    CASE stage = "point" ->
           IF getGridPoint(mr) # NoError
           THEN Fail(Wrap("failed to get grid point", getGridPoint(mr)))
           ELSE Continue("forecast", "")
      [] stage = "forecast" ->
           IF mr.err # NoError THEN Fail(Wrap("failed to get forecast", mr.err))
           ELSE IF Unmarshal(mr.body) # NoError
                THEN Fail(Wrap("failed to parse forecast response", Unmarshal(mr.body)))
           ELSE LET maxPeriods == IF WrapInt(days * 2) > Len(mr.body.items)
                                  THEN Len(mr.body.items) ELSE WrapInt(days * 2)
                    forecasts == ConvertPeriods(mr.body.items, 1, maxPeriods)
                IN Return(forecasts, forecasts = <<>>)

\* time.Parse(time.RFC3339, text) succeeded
ParsedTime(text) == text = "rfc3339"

nwsAlertToWeatherAlert_FailsOnBadTime(nwsAlert) ==
    [err |-> IF nwsAlert.onset # "" /\ ~ParsedTime(nwsAlert.onset)
             THEN <<"parsing time">> ELSE NoError,
     item |-> WeatherAlert(nwsAlert.id, ToLower(nwsAlert.severity), ToLower(nwsAlert.urgency),
                           ToLower(nwsAlert.category),
                           IF ParsedTime(nwsAlert.onset) THEN nwsAlert.onset ELSE "zero",
                           IF ParsedTime(nwsAlert.expires) THEN nwsAlert.expires ELSE "zero")]

nwsAlertToWeatherAlert(nwsAlert) ==
    [err |-> NoError,
     item |-> WeatherAlert(nwsAlert.id, ToLower(nwsAlert.severity), ToLower(nwsAlert.urgency),
                           ToLower(nwsAlert.category),
                           IF nwsAlert.onset # "" /\ ParsedTime(nwsAlert.onset)
                           THEN nwsAlert.onset ELSE "zero",
                           IF nwsAlert.expires # "" /\ ParsedTime(nwsAlert.expires)
                           THEN nwsAlert.expires ELSE "zero")]

\* the loop of GetAlerts: a feature whose conversion fails is skipped
RECURSIVE ConvertAlerts(_)
ConvertAlerts(features) ==
    IF features = <<>> THEN <<>>
    ELSE IF nwsAlertToWeatherAlert(Head(features)).err # NoError THEN ConvertAlerts(Tail(features))
    ELSE <<nwsAlertToWeatherAlert(Head(features)).item>> \o ConvertAlerts(Tail(features))

GetAlertsStage(mr) ==
    IF mr.err # NoError THEN Fail(Wrap("failed to get alerts", mr.err))
    ELSE IF Unmarshal(mr.body) # NoError
         THEN Fail(Wrap("failed to parse alerts response", Unmarshal(mr.body)))
    ELSE LET alerts == ConvertAlerts(mr.body.items)
         IN Return(alerts, alerts = <<>>)

\* strings.Join(parts, " ") of the non-empty parts
RECURSIVE JoinParts(_, _)
JoinParts(parts, sep) ==
    IF parts = <<>> THEN ""
    ELSE IF Len(parts) = 1 THEN parts[1]
    ELSE parts[1] \o sep \o JoinParts(Tail(parts), sep)

buildAddressLine1_AlwaysRange(components) ==
    LET range == IF components.fromAddress # ""
                 THEN IF components.toAddress # ""
                      THEN <<components.fromAddress \o "-" \o components.toAddress>>
                      ELSE <<components.fromAddress>>
                 ELSE <<>>
        part(str) == IF str # "" THEN <<str>> ELSE <<>>
    IN JoinParts(range \o part(components.preDirection) \o part(components.preType)
                       \o part(components.streetName) \o part(components.suffixType)
                       \o part(components.suffixDirection) \o part(components.preQualifier)
                       \o part(components.suffixQualifier), " ")

buildAddressLine1(components) ==
    LET range == IF components.fromAddress # ""
                 THEN IF components.toAddress # "" /\ components.toAddress # components.fromAddress
                      THEN <<components.fromAddress \o "-" \o components.toAddress>>
                      ELSE <<components.fromAddress>>
                 ELSE <<>>
        part(str) == IF str # "" THEN <<str>> ELSE <<>>
    IN JoinParts(range \o part(components.preDirection) \o part(components.preType)
                       \o part(components.streetName) \o part(components.suffixType)
                       \o part(components.suffixDirection) \o part(components.preQualifier)
                       \o part(components.suffixQualifier), " ")

calculateConfidence_OverMatched(original, matched) ==
    LET o == ToLower(TrimSpace(original))
        mt == ToLower(TrimSpace(matched))
        originalWords == Fields(o)
        matchedWords == Fields(mt)
        commonWords == Cardinality({i \in DOMAIN originalWords :
                                      \E j \in DOMAIN matchedWords : originalWords[i] = matchedWords[j]})
        similarity == Rat(commonWords, IF matchedWords = <<>> THEN 1 ELSE Len(matchedWords))
    IN IF o = mt THEN Rat(1, 1)
       ELSE IF Len(originalWords) = 0 THEN Rat(5, 10)
       ELSE IF RatLess(similarity, Rat(1, 10)) THEN Rat(1, 10)
       ELSE IF RatLess(Rat(95, 100), similarity) THEN Rat(95, 100)
       ELSE similarity

calculateConfidence_NoUpperClamp(original, matched) ==
    LET o == ToLower(TrimSpace(original))
        mt == ToLower(TrimSpace(matched))
        originalWords == Fields(o)
        matchedWords == Fields(mt)
        commonWords == Cardinality({i \in DOMAIN originalWords :
                                      \E j \in DOMAIN matchedWords : originalWords[i] = matchedWords[j]})
        similarity == Rat(commonWords, Len(originalWords))
    IN IF o = mt THEN Rat(1, 1)
       ELSE IF Len(originalWords) = 0 THEN Rat(5, 10)
       ELSE IF RatLess(similarity, Rat(1, 10)) THEN Rat(1, 10)
       ELSE similarity

calculateConfidence(original, matched) ==
    LET o == ToLower(TrimSpace(original))
        mt == ToLower(TrimSpace(matched))
        originalWords == Fields(o)
        matchedWords == Fields(mt)
        commonWords == Cardinality({i \in DOMAIN originalWords :
                                      \E j \in DOMAIN matchedWords : originalWords[i] = matchedWords[j]})
        similarity == Rat(commonWords, Len(originalWords))
    IN IF o = mt THEN Rat(1, 1)
       ELSE IF Len(originalWords) = 0 THEN Rat(5, 10)
       ELSE IF RatLess(similarity, Rat(1, 10)) THEN Rat(1, 10)
       ELSE IF RatLess(Rat(95, 100), similarity) THEN Rat(95, 100)
       ELSE similarity

addressMatchToPlace(match, originalAddress) ==
    Place(match.id, match.matchedAddress, buildAddressLine1(match.addressComponents),
          calculateConfidence(originalAddress, match.matchedAddress))

reverseMatchToPlace(match) ==
    Place(match.id, match.matchedAddress, buildAddressLine1(match.addressComponents), Rat(9, 10))

GeocodeAddressStage_ReturnsEmpty(mr, address) ==
    IF mr.err # NoError THEN Fail(Wrap("geocoding request failed", mr.err))
    ELSE IF Unmarshal(mr.body) # NoError
         THEN Fail(Wrap("failed to parse geocoding response", Unmarshal(mr.body)))
    ELSE Return([i \in DOMAIN mr.body.items |-> addressMatchToPlace(mr.body.items[i], address)],
                mr.body.items = <<>>)

GeocodeAddressStage(mr, address) ==
    IF mr.err # NoError THEN Fail(Wrap("geocoding request failed", mr.err))
    ELSE IF Unmarshal(mr.body) # NoError
         THEN Fail(Wrap("failed to parse geocoding response", Unmarshal(mr.body)))
    ELSE LET places == [i \in DOMAIN mr.body.items |-> addressMatchToPlace(mr.body.items[i], address)]
         IN IF Len(places) = 0 THEN Fail(<<"no geocoding results found for address">>)
            ELSE Return(places, FALSE)

ReverseGeocodeStage_LastMatch(mr) ==
    IF mr.err # NoError THEN Fail(Wrap("reverse geocoding request failed", mr.err))
    ELSE IF Unmarshal(mr.body) # NoError
         THEN Fail(Wrap("failed to parse reverse geocoding response", Unmarshal(mr.body)))
    ELSE IF Len(mr.body.items) = 0
         THEN Fail(<<"no reverse geocoding results found for coordinates">>)
    ELSE Return(<<reverseMatchToPlace(mr.body.items[Len(mr.body.items)])>>, FALSE)

ReverseGeocodeStage(mr) ==
    IF mr.err # NoError THEN Fail(Wrap("reverse geocoding request failed", mr.err))
    ELSE IF Unmarshal(mr.body) # NoError
         THEN Fail(Wrap("failed to parse reverse geocoding response", Unmarshal(mr.body)))
    ELSE IF Len(mr.body.items) = 0
         THEN Fail(<<"no reverse geocoding results found for coordinates">>)
    ELSE Return(<<reverseMatchToPlace(mr.body.items[1])>>, FALSE)

\* the stage of the running operation, given what its request produced
Stage(kind, stage, resp, days, address) ==
    CASE kind = "GetCurrentWeather" -> GetCurrentWeatherStage(stage, MakeRequest(resp))
      [] kind = "GetForecast" -> GetForecastStage(stage, MakeRequest(resp), days)
      [] kind = "GetAlerts" -> GetAlertsStage(MakeRequest(resp))
      [] kind = "GeocodeAddress" -> GeocodeAddressStage(CensusMakeRequest(resp), address)
      [] kind = "ReverseGeocode" -> ReverseGeocodeStage(CensusMakeRequest(resp))

NoResult == [err |-> NoError, nil |-> TRUE, items |-> <<>>]
Attempt(stage, target, atCancel, sent, resp) ==
    [stage |-> stage, target |-> target, atCancel |-> atCancel, sent |-> sent,
     outcome |-> resp.outcome, items |-> resp.items, ts |-> resp.ts]

AdapterInit ==
    /\ opKind = "none"
    /\ opDays = 0
    /\ opAddress = <<>>
    /\ pc = "idle"
    /\ inflight = FALSE
    /\ ctxCancelled = FALSE
    /\ cancelPoint = -1
    /\ requests = <<>>
    /\ stationID = ""
    /\ result = NoResult

\* a call starts: nothing attempted yet; its context may already be cancelled
Begin(kind, days, address, first, cancelled) ==
    /\ pc \in {"idle", "done"}
    /\ opKind' = kind
    /\ opDays' = days
    /\ opAddress' = address
    /\ pc' = first
    /\ inflight' = FALSE
    /\ ctxCancelled' = cancelled
    /\ cancelPoint' = IF cancelled THEN 0 ELSE -1
    /\ requests' = <<>>
    /\ stationID' = ""
    /\ result' = NoResult
    /\ UNCHANGED <<cacheVars, nxVars, pmVars, fnVars, keyVars, envVars>>

GetCurrentWeather(cancelled) == Begin("GetCurrentWeather", 0, <<>>, "point", cancelled)
GetForecast(days, cancelled) == Begin("GetForecast", days, <<>>, "point", cancelled)
GetAlerts(cancelled) == Begin("GetAlerts", 0, <<>>, "alerts", cancelled)
GeocodeAddress(address, cancelled) == Begin("GeocodeAddress", 0, address, "geocode", cancelled)
ReverseGeocode(cancelled) == Begin("ReverseGeocode", 0, <<>>, "reverse", cancelled)

\* the caller cancels the context while the call is running
Cancel ==
    /\ pc \notin {"idle", "done"}
    /\ ~ctxCancelled
    /\ ctxCancelled' = TRUE
    /\ cancelPoint' = IF inflight THEN -1 ELSE Len(requests)
    /\ UNCHANGED <<opKind, opDays, opAddress, pc, inflight, requests, stationID, result, cacheVars, nxVars, pmVars, fnVars, keyVars, envVars>>

\* the stage has handled what its request produced
Finish(resp) ==
    LET st == Stage(opKind, pc, resp, opDays, opAddress)
    IN /\ pc' = st.next
       /\ stationID' = IF st.next = "observation" THEN st.station ELSE stationID
       /\ result' = IF st.next = "done" THEN [err |-> st.err, nil |-> st.nil, items |-> st.items]
                    ELSE result

\* makeRequest is entered: the request goes out, unless ctx is already done,
\* in which case Do fails at once and the stage handles that failure
SendRequest ==
    /\ pc \notin {"idle", "done"}
    /\ ~inflight
    /\ LET target == IF pc = "observation" THEN stationID ELSE ""
       IN IF RoundTripRefused(ctxCancelled)
          THEN /\ requests' = Append(requests, Attempt(pc, target, ctxCancelled, FALSE, CtxResp))
               /\ inflight' = FALSE
               /\ Finish(CtxResp)
          ELSE /\ requests' = Append(requests, Attempt(pc, target, ctxCancelled, TRUE, Resp("pending", <<>>, "")))
               /\ inflight' = TRUE
               /\ UNCHANGED <<pc, stationID, result>>
    /\ UNCHANGED <<opKind, opDays, opAddress, ctxCancelled, cancelPoint, cacheVars, nxVars, pmVars, fnVars, keyVars, envVars>>

\* Do and the body read come back; when ctx was cancelled while the request
\* was in flight they may fail with the context's error or still complete
ReceiveResponse(resp) ==
    /\ inflight
    /\ resp \in Responses(pc) \cup (IF ctxCancelled THEN {CtxResp} ELSE {})
    /\ requests' = [requests EXCEPT ![Len(requests)] =
                        Attempt(@.stage, @.target, @.atCancel, @.sent, resp)]
    /\ inflight' = FALSE
    /\ Finish(resp)
    /\ UNCHANGED <<opKind, opDays, opAddress, ctxCancelled, cancelPoint, cacheVars, nxVars, pmVars, fnVars, keyVars, envVars>>

\* what can come back for the request in flight
AllResps == IF inflight THEN Responses(pc) \cup {CtxResp} ELSE {}

AdapterNext ==
    \/ \E c \in BOOLEAN : GetCurrentWeather(c)
    \/ \E d \in Days, c \in BOOLEAN : GetForecast(d, c)
    \/ \E c \in BOOLEAN : GetAlerts(c)
    \/ \E a \in Addresses, c \in BOOLEAN : GeocodeAddress(a, c)
    \/ \E c \in BOOLEAN : ReverseGeocode(c)
    \/ Cancel
    \/ SendRequest
    \/ \E resp \in AllResps : ReceiveResponse(resp)

\* ------------------------------------------------------------------------
\* The conversion functions on their own: a behaviour applies one of them
\* once, to arguments drawn from the sets below.
\* ------------------------------------------------------------------------
OriginalChars == {"a", "B", " "}
MatchedChars == {"a", "b", " "}
DirectionChars == {"N", "E", "S", "W", "n", "e", "s", "w", "x"}
HouseNumbers == {"", "100", "199"}
ComponentInputs ==
    {Components(from, to, pd, "", sn, st, sd, pq, sq) :
        from \in HouseNumbers, to \in HouseNumbers, pd \in {"", "N"}, sn \in {"", "Oak"},
        st \in {"", "Ave"}, sd \in {"", "SW"}, pq \in {"", "Old"}, sq \in {"", "Ext"}}
        \cup {Components("", "", "", pt, sn, "", "", "", "") : pt \in {"", "US Hwy"}, sn \in {"", "Broadway"}}

\* forecast periods: every wind-speed text with one temperature and unit,
\* and every temperature and unit with one wind-speed text
WindChars == {"1", "9", " ", "m", "-", "."}
Temperatures == {75, 60, 32, 0 - 40}
UnitTags == {"F", "C", "f", ""}
PeriodInputs ==
    {Period("P", "rfc3339", "rfc3339", 75, "F", w, <<"S", "W">>) : w \in SeqsUpTo(WindChars, MaxWindLen)}
        \cup {Period("P", "rfc3339", "rfc3339", t, u, <<"1", "9", " ", "m">>, <<"S", "W">>) :
                 t \in Temperatures, u \in UnitTags}

FnInit ==
    /\ fnOp = "none"
    /\ fnIn = <<>>
    /\ fnOut = <<>>

Applied(op, in, out) ==
    /\ fnOp = "none"
    /\ fnOp' = op
    /\ fnIn' = in
    /\ fnOut' = out
    /\ UNCHANGED <<cacheVars, nxVars, pmVars, adapterVars, keyVars, envVars>>

CalculateConfidence(original, matched) ==
    Applied("calculateConfidence", [original |-> original, matched |-> matched],
            calculateConfidence(original, matched))

BuildAddressLine1(components) ==
    Applied("buildAddressLine1", components, buildAddressLine1(components))

ParseWindDirection(direction) ==
    Applied("parseWindDirection", direction, parseWindDirection(direction))

PeriodToForecast(period) ==
    Applied("periodToForecast", period, periodToForecast(period))

FnNext ==
    /\ fnOp = "none"
    /\ \/ \E o \in SeqsUpTo(OriginalChars, MaxStrLen), mt \in SeqsUpTo(MatchedChars, MaxStrLen) :
             CalculateConfidence(o, mt)
       \/ \E c \in ComponentInputs : BuildAddressLine1(c)
       \/ \E dir \in SeqsUpTo(DirectionChars, MaxDirLen) : ParseWindDirection(dir)
       \/ \E period \in PeriodInputs : PeriodToForecast(period)

\* ------------------------------------------------------------------------
\* Encryption keys: KeyValidator.ValidateKey and GenerateSecureKey.  A key
\* is held by what the validator reads of it: its length, whether it has
\* an upper-case letter, a lower-case letter and a digit, which blacklist
\* entry its lower-cased text contains (0 for none) and whether all its
\* characters are the same.
\* ------------------------------------------------------------------------
MinLength == 12
DefaultLength == 16
Growth == 4
MandatoryChars == 3

Key(len, upper, lower, digit, forbidden, uniform) ==
    [len |-> len, upper |-> upper, lower |-> lower, digit |-> digit,
     forbidden |-> forbidden, uniform |-> uniform]
NoKey == Key(0, FALSE, FALSE, FALSE, 0, FALSE)

\* NewKeyValidator().Blacklist, each entry with its length and the kinds of
\* character it is made of
Pattern(text, len, letters, digits) == [text |-> text, len |-> len, letters |-> letters, digits |-> digits]
Blacklist ==
    <<Pattern("password", 8, TRUE, FALSE), Pattern("password123", 11, TRUE, TRUE),
      Pattern("secret", 6, TRUE, FALSE), Pattern("secret123", 9, TRUE, TRUE),
      Pattern("admin", 5, TRUE, FALSE), Pattern("admin123", 8, TRUE, TRUE),
      Pattern("weather", 7, TRUE, FALSE), Pattern("weather123", 10, TRUE, TRUE),
      Pattern("123456789012", 12, FALSE, TRUE), Pattern("abcdef123456", 12, TRUE, TRUE)>>

ValidateKey(key) ==
    IF key.len < MinLength THEN "key must be at least 12 characters long"
    ELSE IF ~key.upper THEN "key must contain at least one uppercase letter"
    ELSE IF ~key.lower THEN "key must contain at least one lowercase letter"
    ELSE IF ~key.digit THEN "key must contain at least one digit"
    ELSE IF key.forbidden # 0 THEN "key contains forbidden pattern: " \o Blacklist[key.forbidden].text
    ELSE IF key.len > 0 /\ key.uniform THEN "key must not be all the same character"
    ELSE NoErr

\* if length < 12 { length = 16 }
EffectiveLength_NoDefault(length) == length

EffectiveLength(length) == IF length < MinLength THEN DefaultLength ELSE length

\* the keys the random draws and the shuffle can produce for a length: one
\* upper-case letter, one lower-case letter and one digit, then random
\* characters up to the length; the text can spell a blacklist entry when
\* there is room for it beside the characters it does not supply itself
Room(pattern) ==
    pattern.len + (IF pattern.letters THEN 0 ELSE 2) + (IF pattern.digits THEN 0 ELSE 1)
GeneratedKeys(length) ==
    LET len == IF length > MandatoryChars THEN length ELSE MandatoryChars
    IN {Key(len, TRUE, TRUE, TRUE, f, FALSE) :
            f \in {0} \cup {i \in DOMAIN Blacklist : Room(Blacklist[i]) <= len}}

KeyLengths == (0 - 1)..MaxKeyLen
NoKeyResult == [key |-> NoKey, err |-> NoErr]

KeyInit ==
    /\ kpc = "idle"
    /\ kRequested = 0
    /\ kLength = 0
    /\ kDepth = 0
    /\ kResult = NoKeyResult

\* GenerateSecureKey(length) is called
GenerateSecureKey(length) ==
    /\ kpc \in {"idle", "done"}
    /\ kpc' = "entered"
    /\ kRequested' = length
    /\ kLength' = length
    /\ kDepth' = 0
    /\ kResult' = NoKeyResult
    /\ UNCHANGED <<cacheVars, nxVars, pmVars, adapterVars, fnVars, envVars>>

\* the body draws a key that passes validation and returns it
KeyAccepted ==
    /\ kpc = "entered"
    /\ \E key \in GeneratedKeys(EffectiveLength(kLength)) :
          /\ ValidateKey(key) = NoErr
          /\ kResult' = [key |-> key, err |-> NoErr]
    /\ kpc' = "done"
    /\ UNCHANGED <<kRequested, kLength, kDepth, cacheVars, nxVars, pmVars, adapterVars, fnVars, envVars>>

\* the body draws a key that fails validation and calls
\* GenerateSecureKey(length + 4)
KeyRejected ==
    /\ kpc = "entered"
    /\ kDepth < MaxRetries
    /\ \E key \in GeneratedKeys(EffectiveLength(kLength)) : ValidateKey(key) # NoErr
    /\ kLength' = WrapInt(EffectiveLength(kLength) + Growth)
    /\ kDepth' = kDepth + 1
    /\ UNCHANGED <<kpc, kRequested, kResult, cacheVars, nxVars, pmVars, adapterVars, fnVars, envVars>>

KeyNext ==
    \/ \E length \in KeyLengths : GenerateSecureKey(length)
    \/ KeyAccepted
    \/ KeyRejected

\* ------------------------------------------------------------------------
\* processEnvFile: rewrites an environment file with its values encrypted
\* or decrypted, keeping the original beside it until the new file is
\* written.  A line is a KEY=value pair or anything else; a value is held
\* by how many times it has been sealed (0: plain text).  Every call to the
\* operating system or to the cipher can fail.
\* ------------------------------------------------------------------------
\* what is at a path: nothing, or a file with its lines
NoFile == [exists |-> FALSE, lines |-> <<>>]
File(lines) == [exists |-> TRUE, lines |-> lines]
PairLine(value) == [pair |-> TRUE, value |-> value]
OtherLine == [pair |-> FALSE, value |-> 0]
EnvLines == {PairLine(0), PairLine(1), OtherLine}
EnvFiles == SeqsUpTo(EnvLines, MaxLines)

\* encryptValue / decryptValue: sealed is false when the cipher or the
\* random source fails, or the value does not open under the key
ProcessValue(value, encrypt, sealed) ==
    IF encrypt
    THEN IF sealed THEN [err |-> NoErr, value |-> value + 1] ELSE [err |-> "failed to encrypt value", value |-> value]
    ELSE IF sealed /\ value > 0 THEN [err |-> NoErr, value |-> value - 1]
         ELSE [err |-> "failed to decrypt value", value |-> value]

\* os.Create failed: os.Rename(backupFile, filePath), its error ignored
RestoreBackup_RemovesBackup(file, backup, renamed) == [file |-> file, backup |-> NoFile]

RestoreBackup(file, backup, renamed) ==
    IF renamed THEN [file |-> backup, backup |-> NoFile] ELSE [file |-> file, backup |-> backup]

EnvInit ==
    /\ epc = "idle"
    /\ eEncrypt = FALSE
    /\ eOriginal = <<>>
    /\ eFile = NoFile
    /\ eBackup = NoFile
    /\ eLines = <<>>
    /\ eErr = NoErr

EnvReturn(err) ==
    /\ epc' = "done"
    /\ eErr' = err

\* processEnvFile(filePath, key, encrypt, logger) on a file with the given
\* lines: os.Open
ProcessEnvFile(content, encrypt, opened) ==
    /\ epc \in {"idle", "done"}
    /\ eEncrypt' = encrypt
    /\ eOriginal' = content
    /\ eFile' = File(content)
    /\ eBackup' = NoFile
    /\ eLines' = <<>>
    /\ IF opened THEN epc' = "scan" /\ eErr' = NoErr
       ELSE EnvReturn("failed to open file")
    /\ UNCHANGED <<cacheVars, nxVars, pmVars, adapterVars, fnVars, keyVars>>

\* one turn of the scanner loop
ScanLine(sealed) ==
    /\ epc = "scan"
    /\ Len(eLines) < Len(eOriginal)
    /\ LET line == eOriginal[Len(eLines) + 1]
           processed == ProcessValue(line.value, eEncrypt, sealed)
       IN IF line.pair /\ processed.err # NoErr
          THEN EnvReturn(processed.err) /\ UNCHANGED eLines
          ELSE /\ eLines' = Append(eLines, IF line.pair THEN PairLine(processed.value) ELSE line)
               /\ UNCHANGED <<epc, eErr>>
    /\ UNCHANGED <<eEncrypt, eOriginal, eFile, eBackup, cacheVars, nxVars, pmVars, adapterVars, fnVars, keyVars>>

\* the scanner is at the end of the file: scanner.Err()
ScanEnd(read) ==
    /\ epc = "scan"
    /\ Len(eLines) = Len(eOriginal)
    /\ IF read THEN epc' = "rename" /\ UNCHANGED eErr
       ELSE EnvReturn("failed to read file")
    /\ UNCHANGED <<eEncrypt, eOriginal, eFile, eBackup, eLines, cacheVars, nxVars, pmVars, adapterVars, fnVars, keyVars>>

\* os.Rename(filePath, backupFile)
RenameToBackup(renamed) ==
    /\ epc = "rename"
    /\ IF renamed
       THEN /\ eBackup' = eFile
            /\ eFile' = NoFile
            /\ epc' = "create"
            /\ UNCHANGED eErr
       ELSE /\ EnvReturn("failed to create backup")
            /\ UNCHANGED <<eFile, eBackup>>
    /\ UNCHANGED <<eEncrypt, eOriginal, eLines, cacheVars, nxVars, pmVars, adapterVars, fnVars, keyVars>>

\* os.Create(filePath)
CreateOutput(created, renamed) ==
    /\ epc = "create"
    /\ IF created
       THEN /\ eFile' = File(<<>>)
            /\ epc' = "write"
            /\ UNCHANGED <<eBackup, eErr>>
       ELSE /\ eFile' = RestoreBackup(eFile, eBackup, renamed).file
            /\ eBackup' = RestoreBackup(eFile, eBackup, renamed).backup
            /\ EnvReturn("failed to create output file")
    /\ UNCHANGED <<eEncrypt, eOriginal, eLines, cacheVars, nxVars, pmVars, adapterVars, fnVars, keyVars>>

\* fmt.Fprintln(outFile, line)
WriteLine(written) ==
    /\ epc = "write"
    /\ Len(eFile.lines) < Len(eLines)
    /\ IF written
       THEN eFile' = File(Append(eFile.lines, eLines[Len(eFile.lines) + 1])) /\ UNCHANGED <<epc, eErr>>
       ELSE EnvReturn("failed to write line") /\ UNCHANGED eFile
    /\ UNCHANGED <<eEncrypt, eOriginal, eBackup, eLines, cacheVars, nxVars, pmVars, adapterVars, fnVars, keyVars>>

\* os.Remove(backupFile), its error ignored, and return nil
RemoveBackup(removed) ==
    /\ epc = "write"
    /\ Len(eFile.lines) = Len(eLines)
    /\ eBackup' = IF removed THEN NoFile ELSE eBackup
    /\ EnvReturn(NoErr)
    /\ UNCHANGED <<eEncrypt, eOriginal, eFile, eLines, cacheVars, nxVars, pmVars, adapterVars, fnVars, keyVars>>

EnvNext ==
    \/ \E content \in EnvFiles, encrypt \in BOOLEAN, opened \in BOOLEAN : ProcessEnvFile(content, encrypt, opened)
    \/ \E sealed \in BOOLEAN : ScanLine(sealed)
    \/ \E read \in BOOLEAN : ScanEnd(read)
    \/ \E renamed \in BOOLEAN : RenameToBackup(renamed)
    \/ \E created \in BOOLEAN, renamed \in BOOLEAN : CreateOutput(created, renamed)
    \/ \E written \in BOOLEAN : WriteLine(written)
    \/ \E removed \in BOOLEAN : RemoveBackup(removed)

Init == CacheInit /\ NXInit /\ PMInit /\ AdapterInit /\ FnInit /\ KeyInit /\ EnvInit

SpecCache == Init /\ [][CacheNext]_vars

SpecCacheErr == Init /\ [][CacheErrNext]_vars

SpecNX == Init /\ [][NXNext]_vars

SpecPM == Init /\ [][PMNext]_vars

SpecPMConc == Init /\ [][PMConcNext]_vars

SpecAdapter == Init /\ [][AdapterNext]_vars

SpecConvert == Init /\ [][FnNext]_vars

\* crypto/rand does not draw a rejected key for ever
SpecKey == Init /\ [][KeyNext]_vars /\ WF_vars(KeyAccepted)

SpecEnv == Init /\ [][EnvNext]_vars

Spec == SpecCache

\* ------------------------------------------------------------------------
\* Properties of the cache-aside layer
\* ------------------------------------------------------------------------

\* the entries a reader can still see at time clk, with their expiry
Live(d, t, clk) ==
    [x \in {y \in DOMAIN d : ~Expired(t, y, clk)} |-> <<d[x], ExpiryOf(t, x)>>]

\* a step that is a RequestCache call (the clock and the store's failure
\* switch are left alone by the calls and changed by every other step)
CacheCall == now' = now /\ shouldError' = shouldError /\ errorMsg' = errorMsg

\* C1: after a successful Set(key, v, ttl) with a TTL (ttl > 0) that no write
\* or delete of the key followed, a Get of the key returns v at every time
\* before the Set's time + ttl and fails with "key not found" at every time
\* after it, whatever calls preceded the Set.
C1_GetAfterSet ==
    [][(CacheCall /\ lastOp'.op = "Get" /\ lastOp'.skey \in DOMAIN lastSet) =>
         LET s == lastSet[lastOp'.skey]
         IN /\ now < s.deadline => (lastOp'.err = NoErr /\ lastOp'.value = s.value)
            /\ now > s.deadline => (lastOp'.err = ErrKeyNotFound /\ lastOp'.value = NilValue)]_vars

\* a Get that failed because the TTL of the latest Set had elapsed
C1_Witness ==
    /\ lastOp.op = "Get"
    /\ lastOp.err = ErrKeyNotFound
    /\ lastOp.skey \in DOMAIN lastSet
    /\ now > lastSet[lastOp.skey].deadline

\* C2: SetNX on a key that exists (stored and not expired) returns false
\* without error and leaves its value and expiry as they were; SetNX on an
\* absent or expired key returns true and stores the new value.
C2_SetNX ==
    [][(CacheCall /\ lastOp'.op = "SetNX") =>
         LET sk == lastOp'.skey
         IN IF sk \in DOMAIN data /\ ~Expired(ttls, sk, now)
            THEN /\ lastOp'.ok = FALSE
                 /\ lastOp'.err = NoErr
                 /\ ValueOf(data', sk) = data[sk]
                 /\ ExpiryOf(ttls', sk) = ExpiryOf(ttls, sk)
            ELSE /\ lastOp'.ok = TRUE
                 /\ lastOp'.err = NoErr
                 /\ ValueOf(data', sk) = lastOp'.arg]_vars

\* a SetNX was refused on a key that holds another value and an expiry
C2_Witness ==
    /\ lastOp.op = "SetNX"
    /\ lastOp.ok = FALSE
    /\ lastOp.err = NoErr
    /\ lastOp.skey \in DOMAIN data
    /\ lastOp.skey \in DOMAIN ttls
    /\ data[lastOp.skey] # lastOp.arg

\* C4: every RequestCache call makes exactly one store call and returns the
\* store's error unchanged; a call on a failing store leaves data and ttls
\* as they were, and no failed call changes an entry a reader can see.
C4_ErrorPropagation ==
    [][CacheCall =>
         /\ lastOp'.calls = 1
         /\ lastOp'.err = lastOp'.serr
         /\ shouldError => (lastOp'.err = errorMsg /\ data' = data /\ ttls' = ttls)
         /\ ~shouldError => lastOp'.err \in {NoErr, ErrKeyNotFound}
         /\ lastOp'.err # NoErr => Live(data', ttls', now) = Live(data, ttls, now)]_vars

\* a SetNX that returned the failing store's error, the store holding an entry
C4_Witness ==
    /\ lastOp.op = "SetNX"
    /\ shouldError
    /\ lastOp.err = errorMsg
    /\ errorMsg = "store down"
    /\ data # EmptyMap

\* C5: a keyed call through the cache with prefix p and key k addresses the
\* store key "p:k", or the bare k when p is empty: Set writes that entry and
\* no other, Delete removes it, Get reads it back.
C5_KeyAddressing ==
    [][(CacheCall /\ lastOp'.op \in {"Get", "Set", "Delete", "Exists", "SetNX", "GetTTL"}) =>
         LET p == lastOp'.prefix
             k == lastOp'.key
             sk == IF p = "" THEN k ELSE p \o ":" \o k
         IN /\ lastOp'.skey = sk
            /\ lastOp'.op = "Set" =>
                  /\ ValueOf(data', sk) = lastOp'.arg
                  /\ \A x \in (DOMAIN data \cup DOMAIN data') \ {sk} :
                        ValueOf(data', x) = ValueOf(data, x)
            /\ (lastOp'.op = "Get" /\ sk \in DOMAIN data /\ ~Expired(ttls, sk, now))
                  => (lastOp'.err = NoErr /\ lastOp'.value = data[sk])
            /\ lastOp'.op = "Delete" => sk \notin DOMAIN data']_vars

\* a Get through the prefixed cache read "w:a" while the bare key "a" held
\* another value
C5_Witness ==
    /\ lastOp.op = "Get"
    /\ lastOp.prefix = "w"
    /\ lastOp.skey = "w:a"
    /\ lastOp.err = NoErr
    /\ "a" \in DOMAIN data
    /\ data["a"] # lastOp.value

\* ------------------------------------------------------------------------
\* Properties of concurrent SetNX
\* ------------------------------------------------------------------------
NXAllDone == \A i \in Callers : nxpc[i] = "done"
NXWinners == {i \in Callers : nxret[i]}

\* C3: when concurrent callers attempt SetNX on the same absent key, exactly
\* one of them gets true and the stored value is that caller's value; every
\* other caller gets false.
C3_ExactlyOneWinner ==
    (NXAllDone /\ ~shouldError) =>
        /\ Cardinality(NXWinners) = 1
        /\ \A i \in NXWinners : ValueOf(data, NXKey) = nxarg[i].value

\* ------------------------------------------------------------------------
\* Properties of the provider registry
\* ------------------------------------------------------------------------
\* the earliest provider of a list with the given name, if any
FirstNamed(list, name) ==
    LET idx == {i \in DOMAIN list : list[i].name = name}
    IN IF idx = {} THEN NilProvider
       ELSE list[CHOOSE i \in idx : \A j \in idx : i <= j]

LookupAnswers ==
    /\ pmLast.op = "GetWeatherProviders" => pmLast.list = SubSeq(regW, 1, pmLast.at)
    /\ pmLast.op = "GetGeocodeProviders" => pmLast.list = SubSeq(regG, 1, pmLast.at)
    /\ pmLast.op = "GetWeatherProviderByName" =>
           pmLast.result = FirstNamed(SubSeq(regW, 1, pmLast.at), pmLast.name)
    /\ pmLast.op = "GetGeocodeProviderByName" =>
           pmLast.result = FirstNamed(SubSeq(regG, 1, pmLast.at), pmLast.name)

\* C6: calls made concurrently on a shared ProviderManager give the results
\* some sequential order of the same calls would give; in particular every
\* registration that has returned is in the list (none is lost).
C6_NoLostRegistration ==
    /\ Len(weatherProviders) = Cardinality({i \in Registrars : regpc[i] = "done" /\ regarg[i].cap = "weather"})
    /\ Len(geocodeProviders) = Cardinality({i \in Registrars : regpc[i] = "done" /\ regarg[i].cap = "geocode"})

\* C6 (as amended): as long as no registration overlaps another call on the
\* same capability of the manager, every registration that has returned is
\* in its list, in order of completion, and listings and lookups answer
\* from exactly the registrations completed before them.
C6_SafeWithoutOverlap ==
    ~raced =>
        /\ weatherProviders = regW
        /\ geocodeProviders = regG
        /\ LookupAnswers

C6_Witness ==
    /\ ~raced
    /\ \A i \in Registrars : regpc[i] = "done"
    /\ \E i, j \in Registrars : i # j /\ regarg[i].cap = regarg[j].cap
                                 /\ regarg[i].provider.name = regarg[j].provider.name
                                 /\ regarg[i].provider # regarg[j].provider
    /\ pmLast.op = "GetWeatherProviderByName" /\ pmLast.at = 2

\* C7: each list holds the registered providers of its capability in
\* registration order, duplicates kept; a lookup by name returns the
\* earliest registered provider with exactly that name, or nil when there
\* is none; registering for one capability leaves the other list alone.
C7_RegistrationOrder ==
    /\ weatherProviders = regW
    /\ geocodeProviders = regG
    /\ LookupAnswers

C7_Witness ==
    /\ Len(weatherProviders) = 3
    /\ weatherProviders[1].name = "nws"
    /\ weatherProviders[2].name = "NWS" /\ weatherProviders[3].name = "NWS"
    /\ weatherProviders[2] # weatherProviders[3]
    /\ Len(geocodeProviders) = 1
    /\ pmLast.op = "GetWeatherProviderByName" /\ pmLast.name = "NWS" /\ pmLast.at = 3
    /\ pmLast.result = weatherProviders[2]

\* ------------------------------------------------------------------------
\* Properties of the adapters
\* ------------------------------------------------------------------------
NumRequests == Len(requests)
RequestFailed(r) == r.outcome \in {"ctx", "neterr", "status", "badjson"}
CurrentWeatherOrder == <<"point", "stations", "observation">>

\* C8: GetCurrentWeather attempts its requests in the order point lookup,
\* station list, latest observation of the first listed station, each at
\* most once; a request is attempted only after every earlier one
\* succeeded, and a call whose last request failed has returned an error.
C8_RequestOrder ==
    opKind = "GetCurrentWeather" =>
        /\ NumRequests <= 3
        /\ \A i \in 1..NumRequests : requests[i].stage = CurrentWeatherOrder[i]
        /\ \A i \in 1..(NumRequests - 1) : requests[i].outcome = "ok"
        /\ NumRequests = 3 =>
               /\ requests[2].items # <<>>
               /\ requests[3].target = requests[2].items[1]
        /\ (NumRequests >= 1 /\ requests[NumRequests].outcome \notin {"ok", "pending"}) =>
               /\ pc = "done"
               /\ result.err # NoError

C8_Witness ==
    /\ opKind = "GetCurrentWeather"
    /\ pc = "done"
    /\ NumRequests = 3
    /\ Len(requests[2].items) = 2
    /\ requests[2].items[1] # requests[2].items[2]
    /\ requests[3].outcome = "status"
    /\ result.err # NoError

\* the message a failed weather operation must lead with, given its last request
StageMessage(r) ==
    CASE r.stage = "point" -> "failed to get grid point"
      [] r.stage = "stations" /\ RequestFailed(r) -> "failed to get observation stations"
      [] r.stage = "stations" /\ r.outcome = "badshape" -> "failed to parse stations response"
      [] r.stage = "stations" -> "no observation stations found"
      [] r.stage = "observation" /\ RequestFailed(r) -> "failed to get current observation"
      [] r.stage = "observation" /\ r.outcome = "badshape" -> "failed to parse observation response"
      [] r.stage = "observation" -> "failed to parse timestamp"
      [] r.stage = "forecast" /\ RequestFailed(r) -> "failed to get forecast"
      [] r.stage = "forecast" -> "failed to parse forecast response"
      [] r.stage = "alerts" /\ RequestFailed(r) -> "failed to get alerts"
      [] r.stage = "alerts" -> "failed to parse alerts response"

FetchStages == {"point", "stations", "observation", "forecast", "alerts"}
FetchMessages == {StageMessage(Attempt(st, "", FALSE, TRUE, Resp("status", <<>>, ""))) : st \in FetchStages}
                     \cup {"no observation stations found"}

\* C9: a weather operation that failed returns no data and an error led by
\* the message of the stage that failed: "failed to get grid point" for the
\* point lookup (request failed or body malformed), "no observation
\* stations found" for an empty station list, and one message of its own
\* for each of station lookup, observation fetch, forecast fetch and alert
\* fetch; these messages are pairwise distinct.
C9_StageErrors ==
    /\ Cardinality(FetchMessages) = Cardinality(FetchStages) + 1
    /\ (opKind \in WeatherOps /\ pc = "done") =>
        LET last == requests[NumRequests]
            failed == \/ RequestFailed(last)
                      \/ last.outcome = "badshape"
                      \/ last.stage = "stations" /\ last.items = <<>>
                      \/ last.stage = "observation" /\ last.ts = "bad"
        IN /\ failed <=> result.err # NoError
           /\ failed =>
                 /\ result.nil /\ result.items = <<>>
                 /\ Head(result.err) = StageMessage(last)

C9_Witness ==
    /\ opKind = "GetForecast"
    /\ pc = "done"
    /\ NumRequests = 1
    /\ requests[1].outcome = "badshape"
    /\ Head(result.err) = "failed to get grid point"

\* C10: once the context is cancelled with no request in flight (before the
\* call's first request or between two stages), the call attempts exactly
\* one more request, which is not sent, and returns an error and no data;
\* no request is ever sent with a cancelled context, none follows a refused
\* one, and a call that returned data sent all its requests before any
\* cancellation.
C10_CancelledContext ==
    /\ \A i \in 1..NumRequests :
          requests[i].atCancel => /\ ~requests[i].sent
                                  /\ requests[i].outcome = "ctx"
                                  /\ i = NumRequests
                                  /\ pc = "done"
    /\ (pc = "done" /\ cancelPoint >= 0) =>
          /\ NumRequests = cancelPoint + 1
          /\ requests[NumRequests].atCancel
          /\ result.err # NoError
          /\ result.nil /\ result.items = <<>>
    /\ (pc = "done" /\ result.err = NoError) =>
          \A i \in 1..NumRequests : ~requests[i].atCancel /\ requests[i].sent

C10_Witness ==
    /\ opKind = "GetCurrentWeather"
    /\ pc = "done"
    /\ cancelPoint = 2
    /\ NumRequests = 3
    /\ requests[2].outcome = "ok"
    /\ ~requests[3].sent
    /\ result.err # NoError

\* ------------------------------------------------------------------------
\* Properties of GetForecast
\* ------------------------------------------------------------------------
Min(a, b) == IF a < b THEN a ELSE b
Parsable(p) == p.startTime = "rfc3339" /\ p.endTime = "rfc3339"
Refs(items) == [i \in DOMAIN items |-> items[i].ref]
ForecastFetched ==
    /\ opKind = "GetForecast" /\ pc = "done"
    /\ requests[NumRequests].stage = "forecast" /\ requests[NumRequests].outcome = "ok"

\* C11: for every days >= 1 and every upstream period list, GetForecast
\* succeeds and returns, in upstream order, exactly the periods among the
\* first min(days * 2, total) whose start and end times parse.
C11_ForecastCap ==
    (ForecastFetched /\ opDays >= 1) =>
        LET periods == requests[NumRequests].items
            cap == Min(opDays * 2, Len(periods))
            kept == SelectSeq(SubSeq(periods, 1, cap), Parsable)
        IN /\ result.err = NoError
           /\ Len(result.items) <= cap
           /\ Refs(result.items) = [i \in DOMAIN kept |-> kept[i].id]

\* ------------------------------------------------------------------------
\* Properties of the geocoding adapter
\* ------------------------------------------------------------------------
GeocodeDone(kind) == opKind = kind /\ pc = "done" /\ NumRequests >= 1
LastRequest == requests[NumRequests]
Matched(n) == LastRequest.outcome = "ok" /\ Len(LastRequest.items) = n
NoGeocodeResults == "no geocoding results found for address"
NoReverseResults == "no reverse geocoding results found for coordinates"

\* C12: GeocodeAddress never returns an empty list with a nil error: with
\* zero upstream matches it fails with "no geocoding results found", and
\* ReverseGeocode with zero matches fails with "no reverse geocoding
\* results found"; on success GeocodeAddress returns one Place per upstream
\* match, in upstream order.
C12_NoEmptyGeocode ==
    /\ GeocodeDone("GeocodeAddress") =>
          /\ result.err = NoError => (~result.nil /\ result.items # <<>>)
          /\ Matched(0) => (result.err # NoError /\ Head(result.err) = NoGeocodeResults)
          /\ (LastRequest.outcome = "ok" /\ ~Matched(0)) =>
                /\ result.err = NoError
                /\ Refs(result.items) = [i \in DOMAIN LastRequest.items |-> LastRequest.items[i].id]
    /\ (GeocodeDone("ReverseGeocode") /\ Matched(0)) =>
          (result.err # NoError /\ Head(result.err) = NoReverseResults)

C12_Witness ==
    /\ GeocodeDone("GeocodeAddress")
    /\ Matched(0)
    /\ Head(result.err) = NoGeocodeResults

\* the kind of failure a geocode error reports, by its leading message
FailureKind(err) ==
    CASE Head(err) \in {"geocoding request failed", "reverse geocoding request failed"} -> "transport"
      [] Head(err) \in {"failed to parse geocoding response",
                        "failed to parse reverse geocoding response"} -> "parse"
      [] Head(err) \in {NoGeocodeResults, NoReverseResults} -> "no results"
      [] OTHER -> "other"

C18_ReverseFirstMatch ==
    opKind = "ReverseGeocode" =>
        /\ NumRequests <= 1
        /\ (pc = "done" /\ LastRequest.outcome = "ok" /\ ~Matched(0)) =>
              /\ result.err = NoError
              /\ Len(result.items) = 1
              /\ result.items[1].ref = LastRequest.items[1].id
              /\ result.items[1].displayName = LastRequest.items[1].matchedAddress
              /\ RatEq(result.items[1].confidence, Rat(9, 10))

C18_Witness ==
    /\ GeocodeDone("ReverseGeocode")
    /\ Matched(2)
    /\ LastRequest.items[1] # LastRequest.items[2]
    /\ result.err = NoError
    /\ result.items[1].ref = LastRequest.items[1].id

\* ------------------------------------------------------------------------
\* Properties of the returned Forecasts
\* ------------------------------------------------------------------------
\* Forecast.Validate: the bounds on temperature, humidity, cloud cover and
\* wind direction
ForecastInvariant(f) ==
    /\ RatLeq(Rat(-27315, 100), f.temperature)
    /\ RatLeq(RatZero, f.humidity) /\ RatLeq(f.humidity, RatInt(100))
    /\ RatLeq(RatZero, f.cloudCover) /\ RatLeq(f.cloudCover, RatInt(100))
    /\ RatLeq(RatZero, f.windDirection) /\ RatLess(f.windDirection, RatInt(360))

\* C14: every Forecast returned by GetCurrentWeather or GetForecast, for
\* any upstream response, has temperature >= -273.15, humidity and cloud
\* cover in [0,100] and wind direction in [0,360).
C14_ForecastInvariant ==
    (opKind \in {"GetCurrentWeather", "GetForecast"} /\ pc = "done" /\ result.err = NoError) =>
        \A i \in DOMAIN result.items : ForecastInvariant(result.items[i])

\* ------------------------------------------------------------------------
\* Properties of the forward-geocode confidence
\* ------------------------------------------------------------------------
ConfidenceApplied == fnOp = "calculateConfidence"

\* a string without its leading and trailing white space
Core(str) ==
    LET solid == {i \in DOMAIN str : str[i] \notin Whitespace}
    IN IF solid = {} THEN <<>>
       ELSE SubSeq(str, CHOOSE i \in solid : \A j \in solid : i <= j,
                        CHOOSE i \in solid : \A j \in solid : j <= i)

\* the positions where a word of the string starts, and the word there
WordStarts(str) ==
    {i \in DOMAIN str : str[i] \notin Whitespace /\ (i = 1 \/ str[i - 1] \in Whitespace)}
WordAt(str, i) ==
    SubSeq(str, i, CHOOSE j \in i..Len(str) :
                      /\ \A k \in i..j : str[k] \notin Whitespace
                      /\ (j = Len(str) \/ str[j + 1] \in Whitespace))
WordsIn(str) == {WordAt(str, i) : i \in WordStarts(str)}
CommonWords(original, matched) ==
    Cardinality({i \in WordStarts(original) : WordAt(original, i) \in WordsIn(matched)})
WholeMatch(original, matched) == ToLower(Core(original)) = ToLower(Core(matched))

\* C15: for an original query that has a word and is not a whole-string
\* match, the confidence is (words of the lower-cased original that occur
\* in the lower-cased matched address) / (words of the original), clamped
\* to [0.1, 0.95]: 0.1 with no common word, 0.95 with every word common;
\* every confidence lies in [0.1, 1.0].
C15_ConfidenceRatio ==
    ConfidenceApplied =>
        /\ RatLeq(Rat(1, 10), fnOut) /\ RatLeq(fnOut, Rat(1, 1))
        /\ (Core(fnIn.original) # <<>> /\ ~WholeMatch(fnIn.original, fnIn.matched)) =>
              LET total == Cardinality(WordStarts(fnIn.original))
                  common == CommonWords(ToLower(fnIn.original), ToLower(fnIn.matched))
                  ratio == Rat(common, total)
              IN /\ RatLess(ratio, Rat(1, 10)) => RatEq(fnOut, Rat(1, 10))
                 /\ RatLess(Rat(95, 100), ratio) => RatEq(fnOut, Rat(95, 100))
                 /\ (RatLeq(Rat(1, 10), ratio) /\ RatLeq(ratio, Rat(95, 100))) => RatEq(fnOut, ratio)
                 /\ common = 0 => RatEq(fnOut, Rat(1, 10))
                 /\ common = total => RatEq(fnOut, Rat(95, 100))

C15_Witness ==
    /\ ConfidenceApplied
    /\ fnIn.original = <<"a", " ", "B">>
    /\ fnIn.matched = <<"a">>
    /\ RatEq(fnOut, Rat(1, 2))

\* C16: the confidence is 1.0 whenever the original and the matched
\* address are identical up to letter case and white space (leading,
\* trailing or repeated inside), and is below 1.0 otherwise.
C16_ExactMatch ==
    ConfidenceApplied =>
        (RatEq(fnOut, Rat(1, 1)) <=> Fields(ToLower(fnIn.original)) = Fields(ToLower(fnIn.matched)))

\* C16 (as amended): the confidence is 1.0 exactly when the original and
\* the matched address are identical up to letter case and leading and
\* trailing white space, and is at most 0.95 otherwise.
C16_ExactMatchTrimmed ==
    ConfidenceApplied =>
        /\ WholeMatch(fnIn.original, fnIn.matched) => RatEq(fnOut, Rat(1, 1))
        /\ ~WholeMatch(fnIn.original, fnIn.matched) => RatLeq(fnOut, Rat(95, 100))

C16_Witness ==
    /\ ConfidenceApplied
    /\ fnIn.original = <<" ", "a", " ", "B">>
    /\ fnIn.matched = <<"a", " ", "b", " ">>
    /\ RatEq(fnOut, Rat(1, 1))

\* C17: the confidence is 0.5 whenever the original query is empty or only
\* white space, for every matched address including an empty one.
C17_EmptyOriginal ==
    (ConfidenceApplied /\ Core(fnIn.original) = <<>>) => RatEq(fnOut, Rat(1, 2))

\* ------------------------------------------------------------------------
\* Properties of buildAddressLine1 and parseWindDirection
\* ------------------------------------------------------------------------
\* the components of an address line, in their fixed order
LineComponents(c) ==
    <<IF c.toAddress # "" /\ c.toAddress # c.fromAddress /\ c.fromAddress # ""
         THEN c.fromAddress \o "-" \o c.toAddress ELSE c.fromAddress,
      c.preDirection, c.preType, c.streetName, c.suffixType, c.suffixDirection,
      c.preQualifier, c.suffixQualifier>>
NonEmpty(str) == str # ""
RECURSIVE SpaceJoined(_)
SpaceJoined(parts) ==
    IF Len(parts) = 0 THEN ""
    ELSE IF Len(parts) = 1 THEN parts[1]
    ELSE SpaceJoined(SubSeq(parts, 1, Len(parts) - 1)) \o " " \o parts[Len(parts)]

\* C19: buildAddressLine1 returns the non-empty components joined by single
\* spaces in the order house-number range ("from-to" when to is non-empty
\* and differs from from, otherwise "from"), pre-direction, pre-type,
\* street name, suffix type, suffix direction, pre-qualifier,
\* suffix-qualifier; 100, 199, Oak, Ave gives "100-199 Oak Ave" and
\* Broadway alone gives "Broadway".
C19_AddressLine ==
    fnOp = "buildAddressLine1" =>
        /\ fnOut = SpaceJoined(SelectSeq(LineComponents(fnIn), NonEmpty))
        /\ fnIn = Components("100", "199", "", "", "Oak", "Ave", "", "", "") => fnOut = "100-199 Oak Ave"
        /\ fnIn = Components("", "", "", "", "Broadway", "", "", "", "") => fnOut = "Broadway"

C19_Witness ==
    /\ fnOp = "buildAddressLine1"
    /\ fnIn.fromAddress = "100" /\ fnIn.toAddress = "100"
    /\ fnOut = "100 N Oak Ave SW Old Ext"

CompassPoints ==
    <<<<"N">>, <<"N", "N", "E">>, <<"N", "E">>, <<"E", "N", "E">>,
      <<"E">>, <<"E", "S", "E">>, <<"S", "E">>, <<"S", "S", "E">>,
      <<"S">>, <<"S", "S", "W">>, <<"S", "W">>, <<"W", "S", "W">>,
      <<"W">>, <<"W", "N", "W">>, <<"N", "W">>, <<"N", "N", "W">>>>

\* C20: parseWindDirection maps the k-th of the 16 compass abbreviations
\* (N, NNE, NE, ... NNW), in any letter case, to (k-1) * 22.5 degrees and
\* every other string, the empty one included, to 0; the result is always
\* in [0,360).
C20_WindDirection ==
    fnOp = "parseWindDirection" =>
        LET points == {k \in DOMAIN CompassPoints : CompassPoints[k] = ToUpper(fnIn)}
        IN /\ \A k \in points : RatEq(fnOut, Rat((k - 1) * 225, 10))
           /\ points = {} => RatEq(fnOut, RatZero)
           /\ RatLeq(RatZero, fnOut) /\ RatLess(fnOut, RatInt(360))

C20_Witness ==
    /\ fnOp = "parseWindDirection"
    /\ fnIn = <<"n", "N", "w">>
    /\ RatEq(fnOut, Rat(3375, 10))

PeriodConverted == fnOp = "periodToForecast"

\* the first word of a text, and the number an integer literal denotes
FirstWord(str) == WordAt(str, CHOOSE i \in WordStarts(str) : \A j \in WordStarts(str) : i <= j)
Unsigned(tok) == IF tok # <<>> /\ Head(tok) \in {"+", "-"} THEN Tail(tok) ELSE tok
IntegerLiteral(tok) ==
    /\ Unsigned(tok) # <<>>
    /\ \A i \in DOMAIN Unsigned(tok) : \E v \in DOMAIN Digits : Digits[v] = Unsigned(tok)[i]
RECURSIVE PlaceSum(_, _)
PlaceSum(body, i) ==
    IF i > Len(body) THEN 0
    ELSE (CHOOSE v \in 0..9 : Digits[v + 1] = body[i]) * 10 ^ (Len(body) - i) + PlaceSum(body, i + 1)
LiteralValue(tok) == IF Head(tok) = "-" THEN 0 - PlaceSum(Unsigned(tok), 1) ELSE PlaceSum(Unsigned(tok), 1)
\* 0.44704 = 1397/3125
MphToMps(speed) == Rat(speed * 1397, 3125)

\* C21 as stated: a period's wind speed is the first whitespace-delimited
\* token of the wind-speed text times 0.44704 whenever that token is
\* numeric, 0 when it is not, and the text never makes the period fail.
C21_WindSpeedFirstToken ==
    PeriodConverted =>
        /\ fnOut.err = NoError
        /\ IF WordStarts(fnIn.windSpeed) # {} /\ IntegerLiteral(FirstWord(fnIn.windSpeed))
           THEN RatEq(fnOut.item.windSpeed, MphToMps(LiteralValue(FirstWord(fnIn.windSpeed))))
           ELSE RatEq(fnOut.item.windSpeed, RatZero)

\* C21: a period's wind speed is the first whitespace-delimited token of
\* the wind-speed text times 0.44704 whenever the text has at least two
\* tokens and the first is an optionally signed decimal integer that fits
\* an int; it is 0 for every other text, and the text never makes the
\* period fail.
C21_WindSpeedTwoTokens ==
    PeriodConverted =>
        /\ fnOut.err = NoError
        /\ IF /\ Cardinality(WordStarts(fnIn.windSpeed)) >= 2
              /\ IntegerLiteral(FirstWord(fnIn.windSpeed))
              /\ LiteralValue(FirstWord(fnIn.windSpeed)) \in MinInt..MaxInt
           THEN RatEq(fnOut.item.windSpeed, MphToMps(LiteralValue(FirstWord(fnIn.windSpeed))))
           ELSE RatEq(fnOut.item.windSpeed, RatZero)

C21_Witness ==
    /\ PeriodConverted
    /\ fnIn.windSpeed = <<"1", "9", " ", " ", "m">>
    /\ fnOut.err = NoError
    /\ RatEq(fnOut.item.windSpeed, Rat(26543, 3125))

\* C22: a period's temperature is (T - 32) * 5 / 9 when its unit tag is
\* exactly "F" and T unchanged for every other unit tag; 75 F gives 23.89
\* and 60 F gives 15.56 within 0.1.
C22_TemperatureConversion ==
    PeriodConverted =>
        /\ IF fnIn.temperatureUnit = "F"
           THEN RatEq(fnOut.item.temperature, Rat((fnIn.temperature - 32) * 5, 9))
           ELSE RatEq(fnOut.item.temperature, RatInt(fnIn.temperature))
        /\ fnIn.temperatureUnit = "F" /\ fnIn.temperature = 75 =>
               /\ RatLeq(Rat(2379, 100), fnOut.item.temperature)
               /\ RatLeq(fnOut.item.temperature, Rat(2399, 100))
        /\ fnIn.temperatureUnit = "F" /\ fnIn.temperature = 60 =>
               /\ RatLeq(Rat(1546, 100), fnOut.item.temperature)
               /\ RatLeq(fnOut.item.temperature, Rat(1566, 100))

C22_Witness ==
    /\ PeriodConverted
    /\ fnIn.temperatureUnit = "F" /\ fnIn.temperature = 60
    /\ RatEq(fnOut.item.temperature, Rat(140, 9))

\* ------------------------------------------------------------------------
\* Properties of the observation mapping
\* ------------------------------------------------------------------------
ObservationFetched ==
    /\ opKind = "GetCurrentWeather" /\ pc = "done"
    /\ LastRequest.stage = "observation" /\ LastRequest.outcome = "ok"

\* what the upstream gave for a field: its value over the unit factor, or 0
Upstream(field, factor) ==
    IF LastRequest.items # <<>> /\ LastRequest.items[1][field].present
    THEN Rat(LastRequest.items[1][field].val.n, LastRequest.items[1][field].val.d * factor)
    ELSE RatZero

\* C23: an observation whose timestamp is absent or RFC3339 always gives
\* one Forecast and no error; each numeric field is the upstream value when
\* present (pressure over 100, visibility over 1000, the others unchanged)
\* and 0 when absent, and an absent timestamp becomes the current time.
C23_ObservationMapping ==
    (ObservationFetched /\ LastRequest.ts \in {"", "rfc3339"}) =>
        /\ result.err = NoError /\ ~result.nil /\ Len(result.items) = 1
        /\ LET f == result.items[1]
           IN /\ RatEq(f.temperature, Upstream("temperature", 1))
              /\ RatEq(f.humidity, Upstream("relativeHumidity", 1))
              /\ RatEq(f.pressure, Upstream("barometricPressure", 100))
              /\ RatEq(f.windSpeed, Upstream("windSpeed", 1))
              /\ RatEq(f.windDirection, Upstream("windDirection", 1))
              /\ RatEq(f.visibility, Upstream("visibility", 1000))
              /\ f.validTime = (IF LastRequest.ts = "" THEN "now" ELSE LastRequest.ts)

C23_Witness ==
    /\ ObservationFetched /\ LastRequest.ts = ""
    /\ LastRequest.items # <<>>
    /\ LastRequest.items[1].barometricPressure.present
    /\ ~LastRequest.items[1].windSpeed.present
    /\ result.err = NoError
    /\ RatEq(result.items[1].pressure, RatInt(1000))
    /\ RatEq(result.items[1].visibility, Rat(1, 2))
    /\ RatEq(result.items[1].windSpeed, RatZero)
    /\ result.items[1].validTime = "now"

\* ------------------------------------------------------------------------
\* Properties of the alerts adapter
\* ------------------------------------------------------------------------
AlertsFetched ==
    /\ opKind = "GetAlerts" /\ pc = "done"
    /\ LastRequest.stage = "alerts" /\ LastRequest.outcome = "ok"

TimeOrZero(text) == IF text = "rfc3339" THEN text ELSE "zero"

\* C24: when the alerts fetch succeeds GetAlerts returns no error and one
\* alert per upstream feature, in upstream order, with severity, urgency
\* and category lower-cased; an onset or expiry that is empty or not
\* RFC3339 leaves the start or end time at the zero time.
C24_AlertsNeverFail ==
    AlertsFetched =>
        /\ result.err = NoError
        /\ Len(result.items) = Len(LastRequest.items)
        /\ \A i \in DOMAIN LastRequest.items :
              LET feature == LastRequest.items[i]
                  alert == result.items[i]
              IN /\ alert.ref = feature.id
                 /\ alert.severity = ToLower(feature.severity)
                 /\ alert.urgency = ToLower(feature.urgency)
                 /\ alert.category = ToLower(feature.category)
                 /\ \A k \in DOMAIN alert.severity : alert.severity[k] \notin DOMAIN LowerOf
                 /\ \A k \in DOMAIN alert.urgency : alert.urgency[k] \notin DOMAIN LowerOf
                 /\ \A k \in DOMAIN alert.category : alert.category[k] \notin DOMAIN LowerOf
                 /\ alert.startTime = TimeOrZero(feature.onset)
                 /\ alert.endTime = TimeOrZero(feature.expires)

C24_Witness ==
    /\ AlertsFetched
    /\ Len(LastRequest.items) = 2
    /\ LastRequest.items[1].id = "A3" /\ LastRequest.items[2].id = "A2"
    /\ result.err = NoError
    /\ result.items[1].ref = "A3" /\ result.items[1].startTime = "zero"
    /\ result.items[1].category = <<"g", "e", "o">>
    /\ result.items[2].severity = <<"m", "i", "n", "o", "r">> /\ result.items[2].endTime = "zero"

\* ------------------------------------------------------------------------
\* Properties of the remaining TTL
\* ------------------------------------------------------------------------
\* the latest call stored the key without an expiry
StoredWithoutExpiry(sk) ==
    lastOp.op = "Set" /\ lastOp.skey = sk /\ lastOp.err = NoErr /\ lastOp.ttl <= 0

\* C25: GetTTL returns -1 and no error for a key that is absent, has
\* expired, or was stored without an expiry; for a key stored by
\* Set(key, v, ttl) with ttl > 0 and not yet expired it returns the time
\* left to the Set's deadline, a duration d with 0 < d <= ttl.
C25_GetTTLSentinel ==
    [][(CacheCall /\ lastOp'.op = "GetTTL") =>
         LET sk == lastOp'.skey
         IN /\ lastOp'.err = NoErr
            /\ (sk \notin DOMAIN data \/ Expired(ttls, sk, now)) => lastOp'.dur = -1
            /\ StoredWithoutExpiry(sk) => lastOp'.dur = -1
            /\ (sk \in DOMAIN lastSet /\ now < lastSet[sk].deadline) =>
                   /\ lastOp'.dur > 0
                   /\ lastOp'.dur = lastSet[sk].deadline - now]_vars

\* ------------------------------------------------------------------------
\* Properties of GenerateSecureKey
\* ------------------------------------------------------------------------
KeyReturned == kpc = "done"

\* what the default validator demands of a key
PassesDefaultValidator(key) ==
    /\ key.len >= 12
    /\ key.upper /\ key.lower /\ key.digit
    /\ key.forbidden = 0
    /\ ~key.uniform

StoreKeys(d, t) == DOMAIN d \cup DOMAIN t
SameEntry(x) == ValueOf(data', x) = ValueOf(data, x) /\ ExpiryOf(ttls', x) = ExpiryOf(ttls, x)
\* stored, with no expiry or with its expiry still ahead
Unexpired(x) == x \in DOMAIN data /\ (x \in DOMAIN ttls => now < ttls[x])

\* C27: a keyed call through a cache with prefix p and key k leaves every
\* store entry other than "p:k" (k for the empty prefix) with its value and
\* expiry; Get, Exists and GetTTL also leave that entry as it was while it
\* is unexpired.
C27_Frame ==
    [][(CacheCall /\ lastOp'.op \in {"Get", "Set", "Delete", "Exists", "SetNX", "GetTTL"}) =>
         LET sk == IF lastOp'.prefix = "" THEN lastOp'.key ELSE lastOp'.prefix \o ":" \o lastOp'.key
         IN /\ \A x \in (StoreKeys(data, ttls) \cup StoreKeys(data', ttls')) \ {sk} : SameEntry(x)
            /\ (lastOp'.op \in {"Get", "Exists", "GetTTL"} /\ Unexpired(sk)) => SameEntry(sk)]_vars

\* a Delete through the prefixed cache removed "w:a" and left the bare key
\* "a" with its value and expiry
C27_Witness ==
    /\ lastOp.op = "Delete" /\ lastOp.skey = "w:a" /\ lastOp.err = NoErr
    /\ "w:a" \notin DOMAIN data
    /\ "a" \in DOMAIN data /\ "a" \in DOMAIN ttls

\* ------------------------------------------------------------------------
\* Isolation of caches with different prefixes
\* ------------------------------------------------------------------------
\* what Get, Exists and GetTTL through the cache with prefix q return for
\* key k on a store holding (d, t)
Reads(q, k, d, t) ==
    LET get == RequestCacheGet(q, d, t, shouldError, errorMsg, k, now)
        exists == RequestCacheExists(q, d, t, shouldError, errorMsg, k, now)
        ttl == RequestCacheGetTTL(q, d, t, shouldError, errorMsg, k, now)
    IN <<get.value, get.err, exists.ok, exists.err, ttl.dur, ttl.err>>

\* C28: no Set, SetNX, Delete or Clear made through one cache changes what
\* Get, Exists or GetTTL return, for any key, through a cache over the
\* same store with a different prefix.
C28_Isolation ==
    [][(CacheCall /\ lastOp'.op \in {"Set", "SetNX", "Delete", "Clear"}) =>
         \A q \in Prefixes \ {lastOp'.prefix} : \A k \in Keys :
             Reads(q, k, data', ttls') = Reads(q, k, data, ttls)]_vars

\* ------------------------------------------------------------------------
\* GetForecast with a day count that asks for nothing
\* ------------------------------------------------------------------------
\* C29: GetForecast does not look at the day count before its requests: it
\* always begins with the point lookup and, when that succeeds, goes on to
\* the forecast fetch; when both succeed and days <= 0, or every period
\* within the cap is unparsable, it returns no forecast and a nil error.
C29_NoDayValidation ==
    (opKind = "GetForecast" /\ pc = "done") =>
        /\ NumRequests >= 1 /\ requests[1].stage = "point"
        /\ requests[1].outcome = "ok" => (NumRequests = 2 /\ requests[2].stage = "forecast")
        /\ (ForecastFetched /\ opDays <= 0) => (result.err = NoError /\ result.items = <<>>)
        /\ (/\ ForecastFetched
            /\ opDays >= 1
            /\ \A i \in 1..Min(opDays * 2, Len(LastRequest.items)) : ~Parsable(LastRequest.items[i]))
               => (result.err = NoError /\ result.items = <<>>)

\* ------------------------------------------------------------------------
\* Properties of processEnvFile
\* ------------------------------------------------------------------------
EnvFailed(err) == epc = "done" /\ eErr = err
Untouched == eFile = File(eOriginal) /\ eBackup = NoFile
\* a step of the call that removes the backup (renaming it is not removing it)
BackupRemoved ==
    /\ epc \notin {"idle", "done"}
    /\ eBackup # NoFile /\ eBackup' = NoFile /\ eFile' = eFile
AllWritten == eFile = File(eLines) /\ Len(eLines) = Len(eOriginal)

\* C30 as stated: when a value fails to encrypt or decrypt the file is
\* untouched and there is no backup; when creating the output file fails
\* the backup has been renamed back to the original path; when writing a
\* line fails the whole original content is at the backup path; the
\* backup is removed only after every line has been written.
C30_NoContentLoss ==
    /\ [](/\ (EnvFailed("failed to encrypt value") \/ EnvFailed("failed to decrypt value")) => Untouched
          /\ EnvFailed("failed to create output file") => Untouched
          /\ EnvFailed("failed to write line") => eBackup = File(eOriginal))
    /\ [][BackupRemoved => AllWritten]_vars

\* C30: when a value fails to encrypt or decrypt the file is untouched and
\* there is no backup; when creating the output file fails the original
\* content is back at the original path, or still at the backup path when
\* renaming it back failed as well; when writing a line fails the whole
\* original content is at the backup path; the backup is removed only
\* after every line has been written; so after every failure the original
\* content is at one of the two paths.
C30_ContentKept ==
    /\ [](/\ (EnvFailed("failed to encrypt value") \/ EnvFailed("failed to decrypt value")) => Untouched
          /\ EnvFailed("failed to create output file") =>
                (Untouched \/ (eFile = NoFile /\ eBackup = File(eOriginal)))
          /\ EnvFailed("failed to write line") => eBackup = File(eOriginal)
          /\ (epc = "done" /\ eErr # NoErr) => (eFile = File(eOriginal) \/ eBackup = File(eOriginal)))
    /\ [][BackupRemoved => AllWritten]_vars

C30_Witness ==
    /\ EnvFailed("failed to write line")
    /\ Len(eOriginal) = 2 /\ Len(eFile.lines) = 1
    /\ eFile.lines # SubSeq(eOriginal, 1, 1)
    /\ eBackup = File(eOriginal)

====
